---- MODULE Spec2Model ----
(***************************************************************************)
(* Risk-analysis pipeline of AdamoPay (src/src/risk_analysis and           *)
(* src/src/characterization).                                              *)
(*                                                                         *)
(* A DataFrame is modelled as [columns, rows]: columns is the set of       *)
(* column names, rows maps each distinct row to its number of copies (the  *)
(* code reads a frame only through len, sum, mean, std, nunique, groupby   *)
(* and boolean masks, none of which depends on the order of the rows).     *)
(* Amounts are in millions of COP (every threshold of the code is a whole  *)
(* number of millions); FECHA is a number of hours since a Monday 00:00,   *)
(* NaT is the value to_datetime(errors='coerce') gives an unparseable      *)
(* date.  Floating-point comparisons of the code are modelled by the       *)
(* exact rational comparison; where IEEE-754 doubles give another result   *)
(* than exact arithmetic the deviation is modelled explicitly.             *)
(***************************************************************************)
EXTENDS Integers, Sequences, FiniteSets, TLC

VARIABLES
    df,         \* the client's transactions (df_cliente)
    perfil,     \* the optional GAFI profile (perfil_gafi)
    reloj,      \* the system clock read by datetime.now(), in days
    pc,         \* position of the caller
    analisis,   \* result of analizar_riesgo_cliente (first call)
    analisis2,  \* result of a second call on the same input
    evaluacion, \* result of evaluar_banderas_riesgo
    alertas_in, \* argument of priorizar_alertas
    alertas_out,\* result of priorizar_alertas
    valor,      \* argument of clasificar_alerta
    umbral,     \* argument of clasificar_alerta
    alerta,     \* result of clasificar_alerta
    metricas,   \* derived metrics of the four functions that compute them
    df_completo,       \* the table given to analizar_riesgo_cartera
    lista_clientes,    \* the clients it is asked to analyse
    analisis_cartera,  \* its result
    df_completo2,      \* table, clients and result of a second call
    lista_clientes2,
    analisis_cartera2,
    clasificacion,     \* result of clasificar_perfil_gafi
    caracterizacion,   \* result of caracterizar_cliente_gafi
    resumen,           \* outcome of obtener_resumen_caracterizacion
    reporte_cartera,   \* outcome of caracterizar_cartera_clientes
    patrones           \* result of detectar_patrones_anomalos

vars_cartera == <<df_completo, lista_clientes, analisis_cartera,
                  df_completo2, lista_clientes2, analisis_cartera2>>

vars_gafi == <<clasificacion, caracterizacion, resumen, reporte_cartera, patrones>>

vars == <<df, perfil, reloj, pc, analisis, analisis2, evaluacion,
          alertas_in, alertas_out, valor, umbral, alerta, metricas,
          vars_cartera, vars_gafi>>

-----------------------------------------------------------------------------
(* Bounds of the model *)

MaxNormales == 4     \* copies of each ordinary paid row
MaxRechazadas == 2   \* copies of each rejected row
MaxAtipicas == 1     \* copies of the large, late row
MaxReloj == 2        \* ticks of the system clock
MaxAlertas == 3      \* length of the list given to priorizar_alertas
MaxValor == 12       \* largest valor given to clasificar_alerta
MaxUmbral == 5       \* largest umbral given to clasificar_alerta
MaxDia == 5          \* copies of each row in the fragmentation frames
MaxFilasDet == 2     \* rows of the frames analysed twice
MaxMatriz == 2       \* copies of each row in the matrix frames
MaxColumnas == 2     \* copies of each row in the frames with absent columns
MaxCartera == 1      \* copies of each row in the table of several clients
MaxLista == 2        \* length of the list given to analizar_riesgo_cartera
MaxMitad == 10       \* copies of each row in the frames of two periods

-----------------------------------------------------------------------------
(* DataFrame primitives *)

NaT == -1

FECHA == "FECHA"
MONTO == "MONTO (COP)"
ESTADO == "ESTADO"
TIPO_TRA == "TIPO DE TRA"
TIPO_PERSONA == "TIPO_PERSONA"
Columnas == {FECHA, MONTO, ESTADO, TIPO_TRA, TIPO_PERSONA}
\* the column analizar_riesgo_cartera selects the rows of a client by
CLIENTE == "CLIENTE"

RECURSIVE Sum(_, _)
Sum(f, S) ==
    IF S = {} THEN 0
    ELSE LET x == CHOOSE y \in S : TRUE IN f[x] + Sum(f, S \ {x})

Min2(a, b) == IF a <= b THEN a ELSE b
Max2(a, b) == IF a >= b THEN a ELSE b
Abs(x) == IF x < 0 THEN -x ELSE x
MaxOf(S) == CHOOSE x \in S : \A y \in S : y <= x
MinOf(S) == CHOOSE x \in S : \A y \in S : x <= y

\* the distinct rows present in the frame
Filas(d) == {r \in DOMAIN d.rows : d.rows[r] > 0}
\* len(df)
len(d) == Sum([r \in Filas(d) |-> d.rows[r]], Filas(d))
\* number of rows satisfying a mask, given as the set of rows that satisfy it
Cuenta(d, S) == Sum([r \in S |-> d.rows[r]], S)
\* df['MONTO (COP)'].sum() restricted to the rows in S
SumaMonto(d, S) == Sum([r \in S |-> d.rows[r] * r.monto], S)
SumaMonto2(d, S) == Sum([r \in S |-> d.rows[r] * r.monto * r.monto], S)
\* df.empty: some axis has length 0
empty(d) == len(d) = 0 \/ d.columns = {}
\* df_completo[df_completo['CLIENTE'] == cliente]
FiltrarCliente_todas(d, cliente) == d

FiltrarCliente(d, cliente) ==
    [columns |-> d.columns,
     rows |-> [r \in {x \in DOMAIN d.rows : x.cliente = cliente} |-> d.rows[r]]]

\* rows left by pd.to_datetime(errors='coerce') followed by dropna
ConFecha(d) == {r \in Filas(d) : r.fecha # NaT}
\* FECHA.dt.date, FECHA.dt.hour and the W-SUN bin of pd.Grouper(freq='W')
dt_date(f) == f \div 24
dt_hour(f) == f % 24
Semana(f) == dt_date(f) \div 7
\* Series.nunique() of a column
nunique(d, col) ==
    Cardinality({ (IF col = TIPO_TRA THEN r.tipo ELSE r.persona) : r \in Filas(d) })

\* str.lower().str.contains(pattern) on the ESTADO values that occur in data
ContieneRechazRetor(e) == e \in {"Rechazado", "Retornado", "Rechazo"}
ContieneRechazErrorRetor(e) == e \in {"Rechazado", "Retornado", "Rechazo", "Error"}
ContieneRechazadoRetornado(e) == e \in {"Rechazado", "Retornado"}

-----------------------------------------------------------------------------
(* risk_engine.clasificar_nivel_riesgo *)

clasificar_nivel_riesgo_lt(score) ==
    IF score < 0 \/ score > 100 THEN "No Evaluado"
    ELSE IF score < 30 THEN "Bajo"
    ELSE IF score <= 50 THEN "Medio"
    ELSE IF score < 75 THEN "Alto"
    ELSE "Crítico"

clasificar_nivel_riesgo(score) ==
    IF score < 0 \/ score > 100 THEN "No Evaluado"
    ELSE IF score <= 30 THEN "Bajo"
    ELSE IF score <= 50 THEN "Medio"
    ELSE IF score <= 75 THEN "Alto"
    ELSE "Crítico"

-----------------------------------------------------------------------------
(* risk_scoring *)

\* perfil_gafi is None or a dict; a dict is [keys, score_riesgo]
PerfilNone == [keys |-> {}, score_riesgo |-> 0]

_calcular_score_gafi(d, p) ==
    IF p.keys # {} /\ "score_riesgo" \in p.keys THEN p.score_riesgo
    ELSE
      LET monto_total == IF MONTO \in d.columns THEN SumaMonto(d, Filas(d)) ELSE 0
          volumen == IF monto_total > 500 THEN 25
                     ELSE IF monto_total > 100 THEN 15 ELSE 0
          total_tx == len(d)
          fechas == {r.fecha : r \in ConFecha(d)}
          dias == (MaxOf(fechas) - MinOf(fechas)) \div 24
          frecuencia ==
              IF FECHA \in d.columns /\ fechas # {}
              THEN IF total_tx > 20 * Max2(dias, 1) THEN 20
                   ELSE IF total_tx > 10 * Max2(dias, 1) THEN 10 ELSE 0
              ELSE 0
          diversidad == IF TIPO_TRA \in d.columns
                        THEN Min2(15, nunique(d, TIPO_TRA) * 4) ELSE 0
      IN Min2(volumen + frecuencia + diversidad, 100)

\* the days (FECHA.dt.date groups) of the frame and their count and sum
Dias(d) == {dt_date(r.fecha) : r \in ConFecha(d)}
FilasDelDia(d, dia) == {r \in ConFecha(d) : dt_date(r.fecha) = dia}

\* the same with 35 points for more than three fragmented days
calcular_score_uiaf_frag35(d) ==
    IF empty(d) THEN 0
    ELSE
      LET tx_altas == Cuenta(d, {r \in Filas(d) : r.monto > 10})
          altas == IF MONTO \in d.columns
                   THEN IF tx_altas > 10 THEN 20 ELSE IF tx_altas > 5 THEN 10 ELSE 0
                   ELSE 0
          dias_fragmentados ==
              Cardinality({dia \in Dias(d) :
                              /\ Cuenta(d, FilasDelDia(d, dia)) > 5
                              /\ SumaMonto(d, FilasDelDia(d, dia)) > 50})
          fragmentacion ==
              IF MONTO \in d.columns /\ FECHA \in d.columns
              THEN IF dias_fragmentados > 3 THEN 35
                   ELSE IF dias_fragmentados > 1 THEN 15 ELSE 0
              ELSE 0
          rechazos == Cuenta(d, {r \in Filas(d) : ContieneRechazRetor(r.estado)})
          inconsistencias ==
              IF ESTADO \in d.columns
              THEN IF 100 * rechazos > 20 * len(d) THEN 20
                   ELSE IF 100 * rechazos > 10 * len(d) THEN 10 ELSE 0
              ELSE 0
      IN Min2(altas + fragmentacion + inconsistencias, 100)

calcular_score_uiaf(d) ==
    IF empty(d) THEN 0
    ELSE
      LET tx_altas == Cuenta(d, {r \in Filas(d) : r.monto > 10})
          altas == IF MONTO \in d.columns
                   THEN IF tx_altas > 10 THEN 20 ELSE IF tx_altas > 5 THEN 10 ELSE 0
                   ELSE 0
          dias_fragmentados ==
              Cardinality({dia \in Dias(d) :
                              /\ Cuenta(d, FilasDelDia(d, dia)) > 5
                              /\ SumaMonto(d, FilasDelDia(d, dia)) > 50})
          fragmentacion ==
              IF MONTO \in d.columns /\ FECHA \in d.columns
              THEN IF dias_fragmentados > 3 THEN 25
                   ELSE IF dias_fragmentados > 1 THEN 15 ELSE 0
              ELSE 0
          rechazos == Cuenta(d, {r \in Filas(d) : ContieneRechazRetor(r.estado)})
          inconsistencias ==
              IF ESTADO \in d.columns
              THEN IF 100 * rechazos > 20 * len(d) THEN 20
                   ELSE IF 100 * rechazos > 10 * len(d) THEN 10 ELSE 0
              ELSE 0
      IN Min2(altas + fragmentacion + inconsistencias, 100)

calcular_score_operativo(d) ==
    IF empty(d) THEN 0
    ELSE
      LET diversidad == nunique(d, TIPO_TRA)
          complejidad ==
              IF TIPO_TRA \in d.columns
              THEN IF diversidad >= 5 THEN 20 ELSE IF diversidad >= 3 THEN 10 ELSE 0
              ELSE 0
          \* cv = std(ddof=1)/mean; std of one value is NaN and compares False
          n == len(d)
          S == SumaMonto(d, Filas(d))
          Q == SumaMonto2(d, Filas(d))
          volatilidad ==
              IF MONTO \in d.columns /\ n > 1 /\ S > 0
              THEN IF 4 * n * (n * Q - S * S) > 9 * (n - 1) * S * S THEN 15
                   ELSE IF n * (n * Q - S * S) > (n - 1) * S * S THEN 8 ELSE 0
              ELSE 0
          errores == Cuenta(d, {r \in Filas(d) : ContieneRechazErrorRetor(r.estado)})
          tasa ==
              IF ESTADO \in d.columns
              THEN IF 100 * errores > 15 * n THEN 25
                   ELSE IF 100 * errores > 10 * n THEN 15 ELSE 0
              ELSE 0
          \* weekly bins from the first to the last dated row, empty ones included
          semanas == {Semana(r.fecha) : r \in ConFecha(d)}
          bins == MinOf(semanas) .. MaxOf(semanas)
          porSemana == [w \in bins |->
                          Cuenta(d, {r \in ConFecha(d) : Semana(r.fecha) = w})]
          fechadas == Cuenta(d, ConFecha(d))
          concentracion ==
              IF FECHA \in d.columns /\ semanas # {}
              THEN IF MaxOf({porSemana[w] : w \in bins}) * Cardinality(bins)
                        > 3 * fechadas
                   THEN 15 ELSE 0
              ELSE 0
          beneficiarios ==
              IF TIPO_PERSONA \in d.columns /\ nunique(d, TIPO_PERSONA) > 50
              THEN 10 ELSE 0
      IN Min2(complejidad + volatilidad + tasa + concentracion + beneficiarios, 100)

crear_score_vacio ==
    [score_total |-> 0, score_gafi |-> 0, score_uiaf |-> 0, score_operativo |-> 0,
     nivel_riesgo |-> "No Evaluado", factores_criticos |-> <<>>,
     ponderacion |-> <<>>]

\* int(g*0.40 + u*0.35 + o*0.25): the weights in hundredths.  For every
\* g in 0..100 and every u, o the two sub-score functions can return, the
\* double-precision sum truncates to the same integer as the exact sum.
Ponderacion == <<40, 35, 25>>
ScoreTotal_round(g, u, o) ==
    (Ponderacion[1] * g + Ponderacion[2] * u + Ponderacion[3] * o + 50) \div 100

ScoreTotal_sin_ponderar(g, u, o) == g + u + o

ScoreTotal(g, u, o) ==
    (Ponderacion[1] * g + Ponderacion[2] * u + Ponderacion[3] * o) \div 100

calcular_score_integral(d, p) ==
    IF empty(d) THEN crear_score_vacio
    ELSE
      LET score_gafi == _calcular_score_gafi(d, p)
          score_uiaf == calcular_score_uiaf(d)
          score_operativo == calcular_score_operativo(d)
          score_total == ScoreTotal(score_gafi, score_uiaf, score_operativo)
          factores_criticos ==
              (IF score_gafi > 70 THEN <<"Perfil GAFI de alto riesgo">> ELSE <<>>)
              \o (IF score_uiaf > 70 THEN <<"Señales UIAF detectadas">> ELSE <<>>)
              \o (IF score_operativo > 70 THEN <<"Riesgo operativo elevado">> ELSE <<>>)
      IN [score_total |-> score_total,
          score_gafi |-> score_gafi,
          score_uiaf |-> score_uiaf,
          score_operativo |-> score_operativo,
          nivel_riesgo |-> clasificar_nivel_riesgo(score_total),
          factores_criticos |-> factores_criticos,
          ponderacion |-> Ponderacion]

-----------------------------------------------------------------------------
(* risk_alerts *)

\* values uuid.uuid4().hex[:8].upper() can take
Uuids == {"0F9E8D7C", "A1B2C3D4"}

\* An alert.  draws is the sequence of values the successive uuid4() calls
\* of one run return and k the number of calls already made; now is the
\* value datetime.now() returns.  valor_detectado is the rational num/den.
\* descripcion is a formatting of valor_detectado and is left out.
Alerta(prefijo, draws, k, tipo, prioridad, titulo, num, den, umbral_, accion, now, reporte, dias) ==
    [id_alerta |-> <<prefijo, draws[k + 1]>>,
     tipo |-> tipo,
     prioridad |-> prioridad,
     titulo |-> titulo,
     valor_detectado |-> <<num, den>>,
     umbral |-> umbral_,
     accion_requerida |-> accion,
     fecha_deteccion |-> now,
     requiere_reporte_uiaf |-> reporte,
     dias_para_accion |-> dias]

_alertas_volumen(d, now, draws, k) ==
    IF MONTO \notin d.columns THEN <<>>
    ELSE
      LET monto_total == SumaMonto(d, Filas(d))
          n == len(d)
          vol == IF monto_total > 1000
                 THEN <<Alerta("VOL", draws, k, "UIAF", "Alta",
                               "Volumen transaccional extremadamente alto",
                               monto_total, 1, 1000,
                               "Validar origen de fondos y justificación económica",
                               now, TRUE, 3)>>
                 ELSE <<>>
          \* monto_promedio > 50_000_000
          tkt == IF monto_total > 50 * n
                 THEN <<Alerta("TKT", draws, k + Len(vol), "UIAF", "Media",
                               "Ticket promedio inusualmente alto",
                               monto_total, n, 50,
                               "Revisar perfil transaccional y naturaleza del negocio",
                               now, FALSE, 7)>>
                 ELSE <<>>
      IN vol \o tkt

_alertas_uiaf(d, now, draws, k) ==
    LET dias_sospechosos ==
            Cardinality({dia \in Dias(d) :
                            /\ Cuenta(d, FilasDelDia(d, dia)) > 10
                            /\ SumaMonto(d, FilasDelDia(d, dia)) > 100})
        frag == IF MONTO \in d.columns /\ FECHA \in d.columns /\ dias_sospechosos > 2
                THEN <<Alerta("FRAG", draws, k, "UIAF", "Crítica",
                              "Posible fragmentación (Smurfing)",
                              dias_sospechosos, 1, 2,
                              "Investigar patrón de fragmentación y reportar a UIAF si se confirma",
                              now, TRUE, 2)>>
                ELSE <<>>
        rechazos == Cuenta(d, {r \in Filas(d) : ContieneRechazRetor(r.estado)})
        \* tasa_rechazo = rechazos / len * 100 > 25
        rech == IF ESTADO \in d.columns /\ 100 * rechazos > 25 * len(d)
                THEN <<Alerta("RECH", draws, k + Len(frag), "Fraude", "Alta",
                              "Tasa de rechazo extremadamente alta",
                              100 * rechazos, len(d), 25,
                              "Investigar motivos de rechazo y posible intento de fraude",
                              now, FALSE, 5)>>
                ELSE <<>>
    IN frag \o rech

_alertas_operacionales(d, now, draws, k) ==
    LET freq == IF len(d) > 1000
                THEN <<Alerta("FREQ", draws, k, "Operacional", "Media",
                              "Volumen transaccional muy alto",
                              len(d), 1, 1000,
                              "Implementar revisiones manuales muestrales periódicas",
                              now, FALSE, 14)>>
                ELSE <<>>
        div == IF TIPO_TRA \in d.columns /\ nunique(d, TIPO_TRA) >= 6
               THEN <<Alerta("DIV", draws, k + Len(freq), "Compliance", "Baja",
                             "Alta diversidad de tipos de transacción",
                             nunique(d, TIPO_TRA), 1, 6,
                             "Validar coherencia con actividad económica del cliente",
                             now, FALSE, 30)>>
               ELSE <<>>
    IN freq \o div

\* orden_prioridad.get(prioridad, 5)
orden_prioridad(p) ==
    CASE p = "Crítica" -> 1
      [] p = "Alta" -> 2
      [] p = "Media" -> 3
      [] p = "Baja" -> 4
      [] OTHER -> 5

\* the sort key of priorizar_alertas, compared as Python compares tuples
ClaveMenor_sin_dias(a, b) ==
    orden_prioridad(a.prioridad) < orden_prioridad(b.prioridad)

ClaveMenor(a, b) ==
    \/ orden_prioridad(a.prioridad) < orden_prioridad(b.prioridad)
    \/ /\ orden_prioridad(a.prioridad) = orden_prioridad(b.prioridad)
       /\ a.dias_para_accion < b.dias_para_accion

\* insertion of x into the sorted list s after every element not greater than
\* x: sorted() is stable
RECURSIVE InsertarOrdenado(_, _)
InsertarOrdenado(s, x) ==
    IF s = <<>> THEN <<x>>
    ELSE IF ClaveMenor(x, Head(s)) THEN <<x>> \o s
    ELSE <<Head(s)>> \o InsertarOrdenado(Tail(s), x)

RECURSIVE sorted(_)
sorted(s) ==
    IF s = <<>> THEN <<>>
    ELSE InsertarOrdenado(sorted(SubSeq(s, 1, Len(s) - 1)), s[Len(s)])

priorizar_alertas(alertas) == sorted(alertas)

\* the score-critical alert, the k+1-th uuid4() call giving its id
_alerta_score_gt(scoring, now, draws, k) ==
    IF scoring.score_total > 76
    THEN <<Alerta("SCORE", draws, k, "Compliance", "Crítica",
                  "Score de riesgo crítico", scoring.score_total, 1, 75,
                  "Suspender operaciones y realizar investigación inmediata",
                  now, TRUE, 1)>>
    ELSE <<>>

_alerta_score(scoring, now, draws, k) ==
    IF scoring.score_total >= 76
    THEN <<Alerta("SCORE", draws, k, "Compliance", "Crítica",
                  "Score de riesgo crítico", scoring.score_total, 1, 75,
                  "Suspender operaciones y realizar investigación inmediata",
                  now, TRUE, 1)>>
    ELSE <<>>

generar_alertas_automaticas(d, scoring, now, draws) ==
    IF empty(d) THEN <<>>
    ELSE
      LET a1 == _alertas_volumen(d, now, draws, 0)
          a2 == a1 \o _alertas_uiaf(d, now, draws, Len(a1))
          a3 == a2 \o _alertas_operacionales(d, now, draws, Len(a2))
          a4 == a3 \o _alerta_score(scoring, now, draws, Len(a3))
      IN priorizar_alertas(a4)

\* f'Alerta {tipo}'
TituloAlerta(tipo) ==
    CASE tipo = "Operacional" -> "Alerta Operacional"
      [] tipo = "UIAF" -> "Alerta UIAF"
      [] tipo = "Compliance" -> "Alerta Compliance"
      [] tipo = "Fraude" -> "Alerta Fraude"
      [] tipo = "Reputacional" -> "Alerta Reputacional"
      [] OTHER -> "Alerta"

\* desviacion = (valor - umbral) / umbral if umbral > 0 else 0, compared with
\* 1.0, 0.5 and 0.2
clasificar_alerta_ge(tipo, valor_, umbral_, now, draws) ==
    LET critica == umbral_ > 0 /\ valor_ - umbral_ >= umbral_
        alta == umbral_ > 0 /\ 2 * (valor_ - umbral_) >= umbral_
        media == umbral_ > 0 /\ 5 * (valor_ - umbral_) >= umbral_
        prioridad == IF critica THEN "Crítica"
                     ELSE IF alta THEN "Alta"
                     ELSE IF media THEN "Media" ELSE "Baja"
        dias == IF critica THEN 2 ELSE IF alta THEN 5 ELSE IF media THEN 10 ELSE 30
    IN Alerta("CUST", draws, 0, tipo, prioridad, TituloAlerta(tipo), valor_, 1,
              umbral_, "Revisar y validar", now,
              prioridad \in {"Crítica", "Alta"}, dias)

clasificar_alerta(tipo, valor_, umbral_, now, draws) ==
    LET critica == umbral_ > 0 /\ valor_ - umbral_ > umbral_
        alta == umbral_ > 0 /\ 2 * (valor_ - umbral_) > umbral_
        media == umbral_ > 0 /\ 5 * (valor_ - umbral_) > umbral_
        prioridad == IF critica THEN "Crítica"
                     ELSE IF alta THEN "Alta"
                     ELSE IF media THEN "Media" ELSE "Baja"
        dias == IF critica THEN 2 ELSE IF alta THEN 5 ELSE IF media THEN 10 ELSE 30
    IN Alerta("CUST", draws, 0, tipo, prioridad, TituloAlerta(tipo), valor_, 1,
              umbral_, "Revisar y validar", now,
              prioridad \in {"Crítica", "Alta"}, dias)

-----------------------------------------------------------------------------
(* risk_engine *)

\* int(v * 0.7) for v in 0..100: in double precision 90 * 0.7 is
\* 62.99999999999999, every other product truncates to floor(7v/10)
IntPor07(v) == IF v = 90 THEN 62 ELSE (7 * v) \div 10

\* Gaps de control
gaps_ge(d, scoring) ==
    (IF scoring.score_total >= 70
     THEN <<"Due Diligence Reforzada requerida">> ELSE <<>>)
    \o (IF len(d) > 1000
        THEN <<"Volumen alto requiere revisión manual periódica">> ELSE <<>>)

gaps(d, scoring) ==
    (IF scoring.score_total > 70
     THEN <<"Due Diligence Reforzada requerida">> ELSE <<>>)
    \o (IF len(d) > 1000
        THEN <<"Volumen alto requiere revisión manual periódica">> ELSE <<>>)

_construir_matriz_riesgo_apetito70(d, scoring) ==
    LET monto_total == IF MONTO \in d.columns THEN SumaMonto(d, Filas(d)) ELSE 0
        volumen_score == IF monto_total > 0 THEN Min2(100, monto_total) ELSE 0
        riesgo_inherente ==
            [volumen |-> volumen_score,
             frecuencia |-> Min2(100, len(d) * 2),
             complejidad |-> scoring.score_operativo,
             geografia |-> 50]
        riesgo_residual ==
            [k \in DOMAIN riesgo_inherente |-> IntPor07(riesgo_inherente[k])]
    IN [riesgo_inherente |-> riesgo_inherente,
        riesgo_residual |-> riesgo_residual,
        controles_aplicados |-> <<"Monitoreo transaccional continuo",
                                  "Validación de beneficiarios",
                                  "Análisis de patrones GAFI",
                                  "Sistema de alertas automáticas">>,
        gaps_control |-> gaps(d, scoring),
        apetito_riesgo_superado |-> scoring.score_total > 70]

_construir_matriz_riesgo(d, scoring) ==
    LET monto_total == IF MONTO \in d.columns THEN SumaMonto(d, Filas(d)) ELSE 0
        volumen_score == IF monto_total > 0 THEN Min2(100, monto_total) ELSE 0
        riesgo_inherente ==
            [volumen |-> volumen_score,
             frecuencia |-> Min2(100, len(d) * 2),
             complejidad |-> scoring.score_operativo,
             geografia |-> 50]
        riesgo_residual ==
            [k \in DOMAIN riesgo_inherente |-> IntPor07(riesgo_inherente[k])]
    IN [riesgo_inherente |-> riesgo_inherente,
        riesgo_residual |-> riesgo_residual,
        controles_aplicados |-> <<"Monitoreo transaccional continuo",
                                  "Validación de beneficiarios",
                                  "Análisis de patrones GAFI",
                                  "Sistema de alertas automáticas">>,
        gaps_control |-> gaps(d, scoring),
        apetito_riesgo_superado |-> scoring.score_total > 75]

\* a recommendation: its text (without the leading pictogram) and the number
\* formatted into it, 0 when the text is fixed
Rec(texto) == [texto |-> texto, n |-> 0]

_generar_recomendaciones(scoring, alertas) ==
    LET nivel == scoring.nivel_riesgo
        porNivel ==
            IF nivel = "Crítico"
            THEN <<Rec("ACCIÓN INMEDIATA: Suspender operaciones y realizar investigación profunda"),
                   Rec("Preparar reporte para UIAF en próximas 24 horas"),
                   Rec("Escalar a Oficial de Cumplimiento")>>
            ELSE IF nivel = "Alto"
            THEN <<Rec("Implementar Due Diligence Reforzada (DDR)"),
                   Rec("Revisión quincenal de actividad transaccional"),
                   Rec("Validar origen de fondos en próximas 72 horas")>>
            ELSE IF nivel = "Medio"
            THEN <<Rec("Monitoreo mensual de actividad"),
                   Rec("Mantener alertas automáticas activas"),
                   Rec("Actualizar documentación KYC si tiene más de 1 año")>>
            ELSE <<Rec("Mantener monitoreo estándar"),
                   Rec("Revisión anual suficiente")>>
        EsCritica(a) == a.prioridad = "Crítica"
        alertas_criticas == SelectSeq(alertas, EsCritica)
    IN IF Len(alertas_criticas) > 0
       THEN porNivel \o <<[texto |-> "alertas críticas requieren atención inmediata",
                           n |-> Len(alertas_criticas)]>>
       ELSE porNivel

\* (datetime.now() + timedelta(days=dias)).strftime('%Y-%m-%d'), as a day
_calcular_proximo_review_alto_mensual(nivel, now) ==
    LET dias == IF nivel = "Crítico" THEN 7
                ELSE IF nivel \in {"Alto", "Medio"} THEN 30
                ELSE 90
    IN now + dias

_calcular_proximo_review(nivel, now) ==
    LET dias == IF nivel = "Crítico" THEN 7
                ELSE IF nivel = "Alto" THEN 15
                ELSE IF nivel = "Medio" THEN 30
                ELSE 90
    IN now + dias

crear_analisis_vacio_sin_rec(cliente, now) ==
    [cliente |-> cliente,
     timestamp_analisis |-> now,
     scoring |-> crear_score_vacio,
     alertas |-> <<>>,
     matriz_riesgo |-> <<>>,
     recomendaciones |-> <<>>,
     requiere_due_diligence_reforzada |-> FALSE,
     requiere_escalamiento |-> FALSE,
     proximo_review |-> "N/A"]

crear_analisis_vacio(cliente, now) ==
    [cliente |-> cliente,
     timestamp_analisis |-> now,
     scoring |-> crear_score_vacio,
     alertas |-> <<>>,
     matriz_riesgo |-> <<>>,
     recomendaciones |-> <<Rec("Sin datos suficientes para análisis")>>,
     requiere_due_diligence_reforzada |-> FALSE,
     requiere_escalamiento |-> FALSE,
     proximo_review |-> "N/A"]

\* 5. Determinar acciones requeridas
requiere_ddr_gt(scoring) == scoring.score_total > 70

requiere_ddr(scoring) == scoring.score_total >= 70

requiere_escalamiento_critica(alertas) ==
    \E i \in 1..Len(alertas) : alertas[i].prioridad \in {"Crítica"}

requiere_escalamiento(alertas) ==
    \E i \in 1..Len(alertas) : alertas[i].prioridad \in {"Alta", "Crítica"}

\* One call.  now is what datetime.now() returns during the call and draws
\* what its uuid4() calls return, in call order.
analizar_riesgo_cliente(d, p, cliente, now, draws) ==
    IF empty(d) THEN crear_analisis_vacio(cliente, now)
    ELSE
      LET scoring == calcular_score_integral(d, p)
          alertas == generar_alertas_automaticas(d, scoring, now, draws)
          matriz == _construir_matriz_riesgo(d, scoring)
          recomendaciones == _generar_recomendaciones(scoring, alertas)
          proximo_review == _calcular_proximo_review(scoring.nivel_riesgo, now)
      IN [cliente |-> cliente,
          timestamp_analisis |-> now,
          scoring |-> scoring,
          alertas |-> alertas,
          matriz_riesgo |-> matriz,
          recomendaciones |-> recomendaciones,
          requiere_due_diligence_reforzada |-> requiere_ddr(scoring),
          requiere_escalamiento |-> requiere_escalamiento(alertas),
          proximo_review |-> proximo_review]

-----------------------------------------------------------------------------
(* characterization/risk_flags *)

UMBRAL_TRANSACCION_ALTA == 10
UMBRAL_VOLUMEN_DIARIO_ALTO == 50
UMBRAL_VOLUMEN_MENSUAL_ALTO == 500
UMBRAL_FRECUENCIA_DIARIA_ALTA == 20

\* A red flag.  detalles holds the integer details of the flag; descripcion
\* and recomendacion are fixed by tipo and are left out.
Bandera(tipo, severidad, detalles, puntos) ==
    [tipo |-> tipo, severidad |-> severidad, detalles |-> detalles, puntos |-> puntos]

_detectar_transacciones_alto_valor(d) ==
    IF MONTO \notin d.columns THEN <<>>
    ELSE
      LET alto_valor == {r \in Filas(d) : r.monto >= UMBRAL_TRANSACCION_ALTA}
          cantidad == Cuenta(d, alto_valor)
      IN IF alto_valor # {}
         THEN <<Bandera("Transacciones de Alto Valor",
                        IF cantidad < 5 THEN "Media" ELSE "Alta",
                        <<cantidad, SumaMonto(d, alto_valor),
                          MaxOf({r.monto : r \in alto_valor})>>,
                        IF cantidad < 5 THEN 15 ELSE 25)>>
         ELSE <<>>

\* FECHA.dt.to_period('M') for the dates of 2024, day 0 being Monday
\* 2024-01-01
FinDeMes == <<31, 60, 91, 121, 152, 182, 213, 244, 274, 305, 335, 366>>
Mes(dia) == CHOOSE m \in 1..12 :
                dia < FinDeMes[m] /\ (m = 1 \/ dia >= FinDeMes[m - 1])

_detectar_volumen_inusual(d) ==
    IF MONTO \notin d.columns \/ FECHA \notin d.columns THEN <<>>
    ELSE IF ConFecha(d) = {} THEN <<>>
    ELSE
      LET dias_alto_volumen ==
              {dia \in Dias(d) :
                  SumaMonto(d, FilasDelDia(d, dia)) >= UMBRAL_VOLUMEN_DIARIO_ALTO}
          meses == {Mes(dia) : dia \in Dias(d)}
          FilasDelMes(m) == {r \in ConFecha(d) : Mes(dt_date(r.fecha)) = m}
          meses_alto_volumen ==
              {m \in meses : SumaMonto(d, FilasDelMes(m)) >= UMBRAL_VOLUMEN_MENSUAL_ALTO}
          diario ==
              IF dias_alto_volumen # {}
              THEN <<Bandera("Volumen Diario Inusual", "Alta",
                             <<Cardinality(dias_alto_volumen),
                               MaxOf({SumaMonto(d, FilasDelDia(d, dia)) :
                                         dia \in dias_alto_volumen})>>,
                             20)>>
              ELSE <<>>
          mensual ==
              IF meses_alto_volumen # {}
              THEN <<Bandera("Volumen Mensual Elevado", "Media",
                             <<Cardinality(meses_alto_volumen),
                               MaxOf({SumaMonto(d, FilasDelMes(m)) :
                                         m \in meses_alto_volumen})>>,
                             15)>>
              ELSE <<>>
      IN diario \o mensual

\* montos[(montos >= media*0.8) & (montos <= media*1.2)] of one day, media
\* being sum/count of the day: the number of amounts in the band
MontosSimilares(d, dia) ==
    LET grupo == FilasDelDia(d, dia)
        n == Cuenta(d, grupo)
        S == SumaMonto(d, grupo)
    IN Cuenta(d, {r \in grupo : 10 * n * r.monto >= 8 * S /\ 10 * n * r.monto <= 12 * S})

_detectar_fragmentacion(d) ==
    IF MONTO \notin d.columns \/ FECHA \notin d.columns THEN <<>>
    ELSE IF ConFecha(d) = {} THEN <<>>
    ELSE
      LET fragmentados ==
              {dia \in Dias(d) :
                  /\ Cuenta(d, FilasDelDia(d, dia)) >= 5
                  /\ MontosSimilares(d, dia) >= 5}
          \* groupby visits the days in increasing order; break after the first
          fecha == MinOf(fragmentados)
      IN IF fragmentados # {}
         THEN <<Bandera("Posible Fragmentación (Structuring)", "Alta",
                        <<fecha, MontosSimilares(d, fecha),
                          SumaMonto(d, FilasDelDia(d, fecha))>>,
                        30)>>
         ELSE <<>>

_detectar_patrones_temporales_sospechosos(d) ==
    IF FECHA \notin d.columns THEN <<>>
    ELSE IF ConFecha(d) = {} THEN <<>>
    ELSE
      LET n == Cuenta(d, ConFecha(d))
          dias_alta_frecuencia ==
              {dia \in Dias(d) :
                  Cuenta(d, FilasDelDia(d, dia)) >= UMBRAL_FRECUENCIA_DIARIA_ALTA}
          frecuencia ==
              IF dias_alta_frecuencia # {}
              THEN <<Bandera("Frecuencia Diaria Excesiva", "Media",
                             <<Cardinality(dias_alta_frecuencia),
                               MaxOf({Cuenta(d, FilasDelDia(d, dia)) :
                                         dia \in dias_alta_frecuencia})>>,
                             15)>>
              ELSE <<>>
          tx_madrugada == Cuenta(d, {r \in ConFecha(d) : dt_hour(r.fecha) < 6})
          \* len(tx_madrugada) > len(df_temp) * 0.2
          madrugada ==
              IF 5 * tx_madrugada > n
              THEN <<Bandera("Transacciones en Horario Inusual", "Baja",
                             <<tx_madrugada>>, 10)>>
              ELSE <<>>
          tx_fin_semana ==
              Cuenta(d, {r \in ConFecha(d) : dt_date(r.fecha) % 7 \in {5, 6}})
          \* len(tx_fin_semana) > len(df_temp) * 0.4
          fin_semana ==
              IF 5 * tx_fin_semana > 2 * n
              THEN <<Bandera("Alta Actividad en Fin de Semana", "Baja",
                             <<tx_fin_semana>>, 8)>>
              ELSE <<>>
      IN frecuencia \o madrugada \o fin_semana

_detectar_alta_tasa_rechazo_sin_columna(d) ==
    LET total_tx == len(d)
        tx_rechazadas ==
            Cuenta(d, {r \in Filas(d) : ContieneRechazadoRetornado(r.estado)})
    IN IF total_tx > 0 /\ 100 * tx_rechazadas >= 20 * total_tx
       THEN <<Bandera("Alta Tasa de Rechazo", "Media",
                      <<tx_rechazadas, total_tx>>, 12)>>
       ELSE <<>>

_detectar_alta_tasa_rechazo(d) ==
    IF ESTADO \notin d.columns THEN <<>>
    ELSE
      LET total_tx == len(d)
          tx_rechazadas ==
              Cuenta(d, {r \in Filas(d) : ContieneRechazadoRetornado(r.estado)})
      IN IF total_tx > 0 /\ 100 * tx_rechazadas >= 20 * total_tx
         THEN <<Bandera("Alta Tasa de Rechazo", "Media",
                        <<tx_rechazadas, total_tx>>, 12)>>
         ELSE <<>>

\* The arrangements sort_values('FECHA') can return: the dated rows in
\* increasing FECHA, rows of equal FECHA in any order (the default sort is
\* not stable).  b maps each row to its number of copies.
RECURSIVE Ordenaciones(_)
Ordenaciones(b) ==
    LET presentes == {r \in DOMAIN b : b[r] > 0}
    IN IF presentes = {} THEN {<<>>}
       ELSE LET primera == MinOf({r.fecha : r \in presentes})
            IN UNION {{<<r>> \o s : s \in Ordenaciones([b EXCEPT ![r] = @ - 1])} :
                         r \in {q \in presentes : q.fecha = primera}}

\* the dated rows of the frame with their copies
Fechadas(d) == [r \in ConFecha(d) |-> d.rows[r]]

RECURSIVE SumaSeq(_)
SumaSeq(s) == IF s = <<>> THEN 0 ELSE Head(s).monto + SumaSeq(Tail(s))

\* what sort_values can return for the frame; it is not called on a frame of
\* fewer than 20 dated rows
OrdenacionesDe(d) ==
    IF Cuenta(d, ConFecha(d)) < 20 THEN {<<>>} ELSE Ordenaciones(Fechadas(d))

\* ordenado is the frame after dropna and sort_values('FECHA')
_detectar_cambios_comportamiento_cuarto(d, ordenado) ==
    IF FECHA \notin d.columns \/ MONTO \notin d.columns THEN <<>>
    ELSE IF Cuenta(d, ConFecha(d)) < 20 THEN <<>>
    ELSE
      LET mitad == Len(ordenado) \div 4
          primera_mitad == SubSeq(ordenado, 1, mitad)
          segunda_mitad == SubSeq(ordenado, mitad + 1, Len(ordenado))
          vol_primera == SumaSeq(primera_mitad)
          vol_segunda == SumaSeq(segunda_mitad)
          \* abs((vol_segunda - vol_primera) / vol_primera * 100) >= 200
          volumen ==
              IF vol_primera > 0 /\ Abs(vol_segunda - vol_primera) >= 2 * vol_primera
              THEN <<Bandera("Cambio Brusco en Volumen", "Alta",
                             <<vol_primera, vol_segunda>>, 20)>>
              ELSE <<>>
          freq_primera == Len(primera_mitad)
          freq_segunda == Len(segunda_mitad)
          \* abs((freq_segunda - freq_primera) / freq_primera * 100) >= 150
          frecuencia ==
              IF freq_primera > 0
                 /\ 2 * Abs(freq_segunda - freq_primera) >= 3 * freq_primera
              THEN <<Bandera("Cambio Brusco en Frecuencia", "Media",
                             <<freq_primera, freq_segunda>>, 15)>>
              ELSE <<>>
      IN volumen \o frecuencia

_detectar_cambios_comportamiento(d, ordenado) ==
    IF FECHA \notin d.columns \/ MONTO \notin d.columns THEN <<>>
    ELSE IF Cuenta(d, ConFecha(d)) < 20 THEN <<>>
    ELSE
      LET mitad == Len(ordenado) \div 2
          primera_mitad == SubSeq(ordenado, 1, mitad)
          segunda_mitad == SubSeq(ordenado, mitad + 1, Len(ordenado))
          vol_primera == SumaSeq(primera_mitad)
          vol_segunda == SumaSeq(segunda_mitad)
          \* abs((vol_segunda - vol_primera) / vol_primera * 100) >= 200
          volumen ==
              IF vol_primera > 0 /\ Abs(vol_segunda - vol_primera) >= 2 * vol_primera
              THEN <<Bandera("Cambio Brusco en Volumen", "Alta",
                             <<vol_primera, vol_segunda>>, 20)>>
              ELSE <<>>
          freq_primera == Len(primera_mitad)
          freq_segunda == Len(segunda_mitad)
          \* abs((freq_segunda - freq_primera) / freq_primera * 100) >= 150
          frecuencia ==
              IF freq_primera > 0
                 /\ 2 * Abs(freq_segunda - freq_primera) >= 3 * freq_primera
              THEN <<Bandera("Cambio Brusco en Frecuencia", "Media",
                             <<freq_primera, freq_segunda>>, 15)>>
              ELSE <<>>
      IN volumen \o frecuencia

_detectar_transacciones_riesgosas(d) == <<>>

_detectar_inconsistencias(d) ==
    IF MONTO \in d.columns
    THEN LET montos_invalidos == {r \in Filas(d) : r.monto <= 0}
         IN IF montos_invalidos # {}
            THEN <<Bandera("Datos Inconsistentes", "Baja",
                           <<Cuenta(d, montos_invalidos)>>, 5)>>
            ELSE <<>>
    ELSE <<>>

RECURSIVE SumaPuntos(_)
SumaPuntos(banderas) ==
    IF banderas = <<>> THEN 0 ELSE Head(banderas).puntos + SumaPuntos(Tail(banderas))

calcular_score_riesgo_interno(banderas) == Min2(SumaPuntos(banderas), 100)

\* ordenado is what sort_values returns inside _detectar_cambios_comportamiento
evaluar_banderas_riesgo(d, ordenado) ==
    IF empty(d)
    THEN [banderas |-> <<>>, total_banderas |-> 0, nivel_alerta |-> "Sin datos",
          score_riesgo |-> 0]
    ELSE
      LET banderas ==
              _detectar_transacciones_alto_valor(d)
              \o _detectar_volumen_inusual(d)
              \o _detectar_fragmentacion(d)
              \o _detectar_patrones_temporales_sospechosos(d)
              \o _detectar_alta_tasa_rechazo(d)
              \o _detectar_cambios_comportamiento(d, ordenado)
              \o _detectar_transacciones_riesgosas(d)
              \o _detectar_inconsistencias(d)
          total_banderas == Len(banderas)
          score == calcular_score_riesgo_interno(banderas)
          nivel == IF score >= 70 \/ total_banderas >= 5 THEN "Crítico"
                   ELSE IF score >= 50 \/ total_banderas >= 3 THEN "Alto"
                   ELSE IF score >= 30 \/ total_banderas >= 1 THEN "Medio"
                   ELSE "Bajo"
      IN [banderas |-> banderas,
          total_banderas |-> total_banderas,
          nivel_alerta |-> nivel,
          score_riesgo |-> score,
          requiere_reporte_uiaf |-> score >= 70,
          requiere_investigacion |-> score >= 50]

-----------------------------------------------------------------------------
(* characterization/behavior_metrics.detectar_patrones_anomalos *)

\* x > media + 2.5 * std, for a value x among n > 1 values of sum s and sum
\* of squares q, std being the sample standard deviation: x is above the
\* mean and (x - s/n)^2 > 6.25 * (n*q - s^2) / (n * (n - 1))
SobreUmbralStd(x, n, s, q) ==
    /\ n * x > s
    /\ 4 * (n - 1) * (n * x - s) * (n * x - s) > 25 * n * (n * q - s * s)

\* x < media - 2.5 * std
BajoUmbralStd(x, n, s, q) ==
    /\ n * x < s
    /\ 4 * (n - 1) * (n * x - s) * (n * x - s) > 25 * n * (n * q - s * s)

\* The dict returned with umbral_std = 2.5: anomalias_monto as the rows of
\* the anomalous transactions with their copies, anomalias_frecuencia as the
\* anomalous days, anomalias_temporales as the list of its entries.  FECHA
\* is in hours, so two dated rows are less than 5 minutes apart exactly when
\* their FECHA is equal.
detectar_patrones_anomalos(d) ==
    IF empty(d) \/ MONTO \notin d.columns
    THEN [total_anomalias |-> 0, anomalias_monto |-> <<>>, anomalias_frecuencia |-> {},
          anomalias_temporales |-> <<>>, nivel_alerta |-> "Normal"]
    ELSE
      LET n == len(d)
          s == SumaMonto(d, Filas(d))
          q == SumaMonto2(d, Filas(d))
          anomalos ==
              IF n > 3 /\ n * q - s * s > 0
              THEN {r \in Filas(d) : \/ SobreUmbralStd(r.monto, n, s, q)
                                     \/ BajoUmbralStd(r.monto, n, s, q)}
              ELSE {}
          anomalias_monto == [r \in anomalos |-> d.rows[r]]
          fechadas == IF FECHA \in d.columns THEN ConFecha(d) ELSE {}
          total_fechadas == Cuenta(d, fechadas)
          dias == {dt_date(r.fecha) : r \in fechadas}
          tx_por_dia == [f \in dias |-> Cuenta(d, {r \in fechadas : dt_date(r.fecha) = f})]
          k == Cardinality(dias)
          q_dias == Sum([f \in dias |-> tx_por_dia[f] * tx_por_dia[f]], dias)
          anomalias_frecuencia ==
              IF k > 3 /\ k * q_dias - total_fechadas * total_fechadas > 0
              THEN {f \in dias : SobreUmbralStd(tx_por_dia[f], k, total_fechadas, q_dias)}
              ELSE {}
          tx_horario_inusual ==
              Cuenta(d, {r \in fechadas : dt_hour(r.fecha) < 5 \/ dt_hour(r.fecha) >= 22})
          horario ==
              IF tx_horario_inusual > 0
              THEN <<[tipo |-> "Horario inusual", cantidad |-> tx_horario_inusual,
                      porcentaje |-> <<100 * tx_horario_inusual, total_fechadas>>]>>
              ELSE <<>>
          rafagas == total_fechadas - Cardinality({r.fecha : r \in fechadas})
          rafaga ==
              IF total_fechadas > 1 /\ rafagas > 5
              THEN <<[tipo |-> "Ráfaga de transacciones", cantidad |-> rafagas,
                      porcentaje |-> <<0, 1>>]>>
              ELSE <<>>
          anomalias_temporales == horario \o rafaga
          total_anomalias == Cuenta(d, anomalos) + Cardinality(anomalias_frecuencia)
                             + Len(anomalias_temporales)
      IN [total_anomalias |-> total_anomalias,
          anomalias_monto |-> anomalias_monto,
          anomalias_frecuencia |-> anomalias_frecuencia,
          anomalias_temporales |-> anomalias_temporales,
          nivel_alerta |-> IF total_anomalias >= 10 THEN "Alto"
                           ELSE IF total_anomalias >= 5 THEN "Medio"
                           ELSE "Bajo"]

-----------------------------------------------------------------------------
(* Derived metrics: active days, daily frequency and rejection rate *)

\* (fecha_max - fecha_min).days
DiasEntre(fechas) == (MaxOf(fechas) - MinOf(fechas)) \div 24

\* round(num/den, 2) in hundredths, for num >= 0 and den > 0 (a tie goes
\* to the even hundredth)
Round2(num, den) ==
    LET q == (100 * num) \div den
        r == (100 * num) % den
    IN IF 2 * r > den \/ (2 * r = den /\ q % 2 = 1) THEN q + 1 ELSE q

\* a function that did not compute the metrics; a quotient is <<num, den>>
SinMetricas ==
    [dias_activo |-> -1, frecuencia_diaria |-> <<0, 1>>, tasa_rechazo |-> <<0, 1>>]

\* base_characterization.caracterizar_cliente_gafi: the dias_activo,
\* frecuencia_diaria and tasa_rechazo of metricas_consolidadas
caracterizar_cliente_gafi(d) ==
    IF empty(d)
    THEN [dias_activo |-> 0, frecuencia_diaria |-> <<0, 1>>, tasa_rechazo |-> <<0, 1>>]
    ELSE
      LET total_tx == len(d)
          fechas == {r.fecha : r \in ConFecha(d)}
          dias_activo == IF FECHA \in d.columns /\ fechas # {}
                         THEN DiasEntre(fechas) ELSE 0
          frecuencia_diaria == IF dias_activo > 0
                               THEN <<Round2(total_tx, dias_activo), 100>>
                               ELSE <<0, 1>>
          rechazos == Cuenta(d, {r \in Filas(d) : ContieneRechazRetor(r.estado)})
          tasa_rechazo == IF ESTADO \in d.columns
                          THEN <<Round2(100 * rechazos, total_tx), 100>>
                          ELSE <<0, 1>>
      IN [dias_activo |-> dias_activo,
          frecuencia_diaria |-> frecuencia_diaria,
          tasa_rechazo |-> tasa_rechazo]

\* The keys of metricas_consolidadas
ClavesMetricas ==
    {"total_transacciones", "tx_exitosas", "dias_activo", "fecha_primera_tx",
     "fecha_ultima_tx", "frecuencia_diaria", "monto_total", "monto_promedio",
     "monto_mediana", "monto_minimo", "monto_maximo", "desviacion_std",
     "tasa_rechazo", "diversidad_tipos"}

\* metricas_consolidadas of a non-empty frame: its keys and the values the
\* score, the flags and the consumers read.  Amounts are in millions, a
\* quotient is <<num, den>>.
metricas_consolidadas(d) ==
    LET m == caracterizar_cliente_gafi(d)
        conMonto == MONTO \in d.columns
    IN [keys |-> ClavesMetricas,
        total_transacciones |-> len(d),
        dias_activo |-> m.dias_activo,
        frecuencia_diaria |-> m.frecuencia_diaria,
        monto_total |-> IF conMonto THEN SumaMonto(d, Filas(d)) ELSE 0,
        monto_promedio |-> IF conMonto THEN <<SumaMonto(d, Filas(d)), len(d)>> ELSE <<0, 1>>,
        tasa_rechazo |-> m.tasa_rechazo,
        diversidad_tipos |-> IF TIPO_TRA \in d.columns
                             THEN Cardinality({r.tipo : r \in Filas(d)}) ELSE 0]

\* q > n for a quotient q with positive denominator
Mayor(q, n) == q[1] > n * q[2]

_calcular_score_riesgo_optimizado_gt4(mc) ==
    Min2((IF mc.monto_total > 500 THEN 25
          ELSE IF mc.monto_total > 100 THEN 15
          ELSE IF mc.monto_total > 10 THEN 5 ELSE 0)
         + (IF Mayor(mc.frecuencia_diaria, 20) THEN 20
            ELSE IF Mayor(mc.frecuencia_diaria, 10) THEN 12
            ELSE IF Mayor(mc.frecuencia_diaria, 5) THEN 5 ELSE 0)
         + (IF Mayor(mc.monto_promedio, 20) THEN 20
            ELSE IF Mayor(mc.monto_promedio, 5) THEN 12
            ELSE IF Mayor(mc.monto_promedio, 1) THEN 5 ELSE 0)
         + (IF mc.diversidad_tipos > 4 THEN 15
            ELSE IF mc.diversidad_tipos >= 3 THEN 10
            ELSE IF mc.diversidad_tipos >= 2 THEN 5 ELSE 0)
         + (IF Mayor(mc.tasa_rechazo, 15) THEN 20
            ELSE IF Mayor(mc.tasa_rechazo, 10) THEN 12
            ELSE IF Mayor(mc.tasa_rechazo, 5) THEN 5 ELSE 0),
         100)

_calcular_score_riesgo_optimizado(mc) ==
    Min2((IF mc.monto_total > 500 THEN 25
          ELSE IF mc.monto_total > 100 THEN 15
          ELSE IF mc.monto_total > 10 THEN 5 ELSE 0)
         + (IF Mayor(mc.frecuencia_diaria, 20) THEN 20
            ELSE IF Mayor(mc.frecuencia_diaria, 10) THEN 12
            ELSE IF Mayor(mc.frecuencia_diaria, 5) THEN 5 ELSE 0)
         + (IF Mayor(mc.monto_promedio, 20) THEN 20
            ELSE IF Mayor(mc.monto_promedio, 5) THEN 12
            ELSE IF Mayor(mc.monto_promedio, 1) THEN 5 ELSE 0)
         + (IF mc.diversidad_tipos >= 4 THEN 15
            ELSE IF mc.diversidad_tipos >= 3 THEN 10
            ELSE IF mc.diversidad_tipos >= 2 THEN 5 ELSE 0)
         + (IF Mayor(mc.tasa_rechazo, 15) THEN 20
            ELSE IF Mayor(mc.tasa_rechazo, 10) THEN 12
            ELSE IF Mayor(mc.tasa_rechazo, 5) THEN 5 ELSE 0),
         100)

\* the tipo and severidad of the flags of _detectar_banderas_optimizado
_detectar_banderas_optimizado(mc) ==
    LET Si(c, tipo, severidad) ==
            IF c THEN <<[tipo |-> tipo, severidad |-> severidad]>> ELSE <<>>
    IN Si(mc.monto_total > 500, "Volumen Alto", "Alta")
       \o Si(Mayor(mc.monto_promedio, 20), "Ticket Alto", "Media")
       \o Si(Mayor(mc.frecuencia_diaria, 20), "Frecuencia Alta", "Media")
       \o Si(Mayor(mc.tasa_rechazo, 15), "Rechazos Elevados", "Alta")
       \o Si(mc.dias_activo > 0
                /\ mc.total_transacciones > 50 * mc.dias_activo,
             "Actividad Concentrada", "Media")
       \o Si(mc.diversidad_tipos >= 4, "Diversidad de Operaciones", "Baja")

_crear_respuesta_vacia(now) ==
    [nivel_riesgo_inicial |-> "No Evaluado",
     score_riesgo |-> 0,
     banderas_riesgo |-> <<>>,
     metricas_consolidadas |-> [keys |-> {}],
     timestamp_analisis |-> now,
     tiene_datos |-> FALSE]

\* base_characterization.caracterizar_cliente_gafi: the dict it returns,
\* without perfil_transaccional and mensaje
caracterizar_cliente_gafi_dict(d, now) ==
    IF empty(d) THEN _crear_respuesta_vacia(now)
    ELSE
      LET metricas_ == metricas_consolidadas(d)
          score == _calcular_score_riesgo_optimizado(metricas_)
          nivel_riesgo == IF score >= 70 THEN "Alto"
                          ELSE IF score >= 40 THEN "Medio"
                          ELSE "Bajo"
      IN [nivel_riesgo_inicial |-> nivel_riesgo,
          score_riesgo |-> score,
          banderas_riesgo |-> _detectar_banderas_optimizado(metricas_),
          metricas_consolidadas |-> metricas_,
          timestamp_analisis |-> now,
          tiene_datos |-> TRUE]

\* dict.get(clave, defecto)
Get(dict, clave, defecto) == IF clave \in dict.keys THEN dict[clave] ELSE defecto

\* The outcome of obtener_resumen_caracterizacion: the text is left out; a
\* subscript with a key the dict lacks raises KeyError, the keys being read
\* in the order of the template.
ClavesResumen ==
    <<"total_transacciones", "volumen_total", "ticket_promedio", "dias_operacion",
      "frecuencia_operacional">>

obtener_resumen_caracterizacion(resultado) ==
    IF ~resultado.tiene_datos THEN [excepcion |-> "", clave |-> ""]
    ELSE
      LET metricas_ == resultado.metricas_consolidadas
          faltan == {i \in 1..Len(ClavesResumen) : ClavesResumen[i] \notin metricas_.keys}
      IN IF faltan = {} THEN [excepcion |-> "", clave |-> ""]
         ELSE [excepcion |-> "KeyError", clave |-> ClavesResumen[MinOf(faltan)]]

\* the sort key (orden_riesgo, volumen_total) as one number; a volume is
\* below 10000
ClaveCaracterizacion(c) ==
    10000 * (CASE c.nivel_riesgo = "Alto" -> 3
               [] c.nivel_riesgo = "Medio" -> 2
               [] c.nivel_riesgo = "Bajo" -> 1
               [] OTHER -> 0)
    + c.volumen_total

\* list.sort(key=..., reverse=True): descending and stable
RECURSIVE OrdenarCaracterizaciones(_)
OrdenarCaracterizaciones(cs) ==
    IF cs = <<>> THEN <<>>
    ELSE
      LET i == CHOOSE i \in 1..Len(cs) :
                   /\ \A j \in 1..Len(cs) :
                         ClaveCaracterizacion(cs[j]) <= ClaveCaracterizacion(cs[i])
                   /\ \A j \in 1..(i - 1) :
                         ClaveCaracterizacion(cs[j]) < ClaveCaracterizacion(cs[i])
      IN <<cs[i]>> \o OrdenarCaracterizaciones(
                          SubSeq(cs, 1, i - 1) \o SubSeq(cs, i + 1, Len(cs)))

caracterizar_cartera_clientes(d, lista, now) ==
    IF empty(d) \/ lista = <<>>
    THEN [total_clientes |-> 0, caracterizaciones |-> <<>>]
    ELSE
      LET caracterizaciones ==
              [i \in 1..Len(lista) |->
                  LET resultado ==
                          caracterizar_cliente_gafi_dict(FiltrarCliente(d, lista[i]), now)
                  IN [cliente |-> lista[i],
                      nivel_riesgo |-> resultado.nivel_riesgo_inicial,
                      total_transacciones |->
                          Get(resultado.metricas_consolidadas, "total_transacciones", 0),
                      volumen_total |->
                          Get(resultado.metricas_consolidadas, "volumen_total", 0),
                      cantidad_banderas |->
                          Get(resultado.metricas_consolidadas, "cantidad_banderas", 0)]]
      IN [total_clientes |-> Len(lista),
          caracterizaciones |->
              OrdenarCaracterizaciones(caracterizaciones)]

\* gafi_profile.clasificar_perfil_gafi: its dias_activo, frecuencia_diaria
\* and tasa_rechazo; min() and max() of the FECHA column skip NaT
clasificar_perfil_gafi(d) ==
    IF empty(d) THEN SinMetricas
    ELSE
      LET total_tx == len(d)
          fechas == {r.fecha : r \in ConFecha(d)}
          dias_activo == IF FECHA \notin d.columns THEN -1
                         ELSE IF fechas # {} THEN DiasEntre(fechas) ELSE 1
          frecuencia_diaria == IF FECHA \in d.columns
                               THEN <<total_tx, Max2(dias_activo, 1)>>
                               ELSE <<0, 1>>
          tx_rechazadas ==
              Cuenta(d, {r \in Filas(d) : ContieneRechazadoRetornado(r.estado)})
          tasa_rechazo == IF ESTADO \in d.columns
                          THEN <<100 * tx_rechazadas, total_tx>> ELSE <<0, 1>>
      IN [dias_activo |-> dias_activo,
          frecuencia_diaria |-> frecuencia_diaria,
          tasa_rechazo |-> tasa_rechazo]

\* gafi_profile.clasificar_perfil_gafi: the dict it returns, as the set of its
\* keys and the values validar_perfil_gafi reads.  Amounts are in millions.
clasificar_perfil_gafi_dict(d) ==
    IF empty(d)
    THEN [keys |-> {"perfil", "nivel_riesgo", "score", "factores"},
          nivel_riesgo |-> "N/A", score |-> 0]
    ELSE
      LET total_tx == len(d)
          m == clasificar_perfil_gafi(d)
          volumen_total == IF MONTO \in d.columns THEN SumaMonto(d, Filas(d)) ELSE 0
          tx_juridicas == Cuenta(d, {r \in Filas(d) : r.persona = "Jurídica"})
          puntos ==
              (IF volumen_total > 100 THEN 20 ELSE 0)
              + (IF volumen_total > 10 * total_tx THEN 15 ELSE 0)
              + (IF m.frecuencia_diaria[1] > 10 * m.frecuencia_diaria[2] THEN 15 ELSE 0)
              + (IF TIPO_TRA \in d.columns /\ Cardinality({r.tipo : r \in Filas(d)}) >= 3
                 THEN 10 ELSE 0)
              + (IF ESTADO \in d.columns /\ m.tasa_rechazo[1] > 15 * m.tasa_rechazo[2]
                 THEN 20 ELSE 0)
              + (IF TIPO_PERSONA \in d.columns /\ 100 * tx_juridicas > 50 * total_tx
                 THEN 10 ELSE 0)
          nivel_riesgo == IF puntos >= 60 THEN "Alto"
                          ELSE IF puntos >= 30 THEN "Medio"
                          ELSE "Bajo"
      IN [keys |-> {"perfil", "nivel_riesgo", "score", "factores", "metricas"},
          nivel_riesgo |-> nivel_riesgo, score |-> Min2(puntos, 100)]

\* contracts.validar_perfil_gafi and validar_banderas_riesgo: the bool they
\* return
validar_perfil_gafi(resultado) ==
    /\ {"perfil", "nivel_riesgo", "score", "factores", "metricas"} \subseteq resultado.keys
    /\ resultado.nivel_riesgo \in {"Bajo", "Medio", "Alto", "N/A"}
    /\ resultado.score \in 0..100

validar_banderas_riesgo(resultado) ==
    /\ {"banderas", "total_banderas", "nivel_alerta", "score_riesgo"}
          \subseteq DOMAIN resultado
    /\ resultado.nivel_alerta \in {"Sin datos", "Bajo", "Medio", "Alto", "Crítico"}
    /\ resultado.score_riesgo \in 0..100

\* behavior_metrics.calcular_metricas_comportamiento: its dias_activo,
\* frecuencia_diaria and tasa_rechazo
calcular_metricas_comportamiento(d) ==
    IF empty(d) THEN SinMetricas
    ELSE
      LET fechas == {r.fecha : r \in ConFecha(d)}
          fechado == FECHA \in d.columns /\ fechas # {}
          dias_activo == IF fechado THEN DiasEntre(fechas) + 1 ELSE -1
          frecuencia_diaria == IF fechado
                               THEN <<Cuenta(d, ConFecha(d)), Max2(dias_activo, 1)>>
                               ELSE <<0, 1>>
          tx_rechazadas ==
              Cuenta(d, {r \in Filas(d) : ContieneRechazadoRetornado(r.estado)})
          tasa_rechazo == IF ESTADO \in d.columns
                          THEN <<100 * tx_rechazadas, len(d)>> ELSE <<0, 1>>
      IN [dias_activo |-> dias_activo,
          frecuencia_diaria |-> frecuencia_diaria,
          tasa_rechazo |-> tasa_rechazo]

\* risk_scoring._calcular_score_gafi without a characterisation score: the
\* dias and freq of its frequency factor; it computes no rejection rate
_calcular_score_gafi_frecuencia(d) ==
    IF empty(d) THEN SinMetricas
    ELSE
      LET total_tx == len(d)
          fechas == {r.fecha : r \in ConFecha(d)}
          fechado == FECHA \in d.columns /\ fechas # {}
          dias == IF fechado THEN DiasEntre(fechas) ELSE -1
      IN [dias_activo |-> dias,
          frecuencia_diaria |-> IF fechado THEN <<total_tx, Max2(dias, 1)>>
                                ELSE <<0, 1>>,
          tasa_rechazo |-> <<0, 1>>]

-----------------------------------------------------------------------------
(* Inputs *)

Fila(fecha, monto, estado, tipo, persona) ==
    [fecha |-> fecha, monto |-> monto, estado |-> estado, tipo |-> tipo,
     persona |-> persona]

\* Rows of the client frames: two busy days of 11M transactions, paid and
\* rejected, one late transaction of 900M and one small one
k1 == Fila(10, 11, "Pagado", "Fondeo", "Natural")
k2 == Fila(10, 11, "Rechazado", "Retiro", "Natural")
k3 == Fila(34, 11, "Pagado", "Pago", "Jurídica")
k4 == Fila(34, 11, "Rechazado", "Transferencia", "Jurídica")
k5 == Fila(850, 900, "Pagado", "Giro", "Natural")
k6 == Fila(58, 5, "Pagado", "Recaudo", "Natural")
Catalogo == {k1, k2, k3, k4, k5, k6}
Tope(r) == IF r \in {k1, k3} THEN MaxNormales
           ELSE IF r \in {k2, k4} THEN MaxRechazadas
           ELSE MaxAtipicas

FramesCliente ==
    {[columns |-> Columnas, rows |-> b] :
        b \in {c \in [Catalogo -> 0..Max2(Max2(MaxNormales, MaxRechazadas), MaxAtipicas)] :
                  \A r \in Catalogo : c[r] <= Tope(r)}}

\* Rows of the fragmentation frames: one day of 10M, 12M, 30M and -10M
\* transactions and a second day of 10M transactions
f1 == Fila(10, 10, "Pagado", "Fondeo", "Natural")
f2 == Fila(11, 12, "Pagado", "Fondeo", "Natural")
f3 == Fila(12, 30, "Pagado", "Fondeo", "Natural")
f4 == Fila(13, -10, "Pagado", "Fondeo", "Natural")
f5 == Fila(34, 10, "Pagado", "Fondeo", "Natural")
CatalogoFrag == {f1, f2, f3, f4, f5}

FramesFrag ==
    {[columns |-> Columnas, rows |-> b] : b \in [CatalogoFrag -> 0..MaxDia]}

\* Rows of the matrix frames: 45M and 1M transactions, and a thousand
\* transactions of amount 0 beside the 1M ones
MilFilas == 1000
g0 == Fila(10, 0, "Pagado", "Fondeo", "Natural")
m1 == Fila(10, 45, "Pagado", "Fondeo", "Natural")
m3 == Fila(11, 1, "Pagado", "Fondeo", "Natural")
CatalogoMatriz == {g0, m1, m3}

FramesMatriz ==
    {[columns |-> Columnas, rows |-> b] :
        b \in {c \in [CatalogoMatriz -> 0..MaxMatriz \cup {MilFilas}] :
                  /\ c[g0] \in {0, MilFilas}
                  /\ c[m1] <= MaxMatriz
                  /\ c[m3] <= MaxMatriz
                  /\ c[g0] > 0 => c[m1] = 0}}

\* Rows of the frames with absent columns: a rejected 11M transaction at
\* 03:00 and a paid 900M one; the frames keep the CLIENTE column and any
\* subset of the five optional ones
c1 == Fila(3, 11, "Rechazado", "Retiro", "Natural")
c2 == Fila(850, 900, "Pagado", "Giro", "Jurídica")
CatalogoColumnas == {c1, c2}

FramesColumnas ==
    {[columns |-> {CLIENTE} \cup C, rows |-> b] :
        C \in SUBSET Columnas, b \in [CatalogoColumnas -> 0..MaxColumnas]}

\* Frames of a single paid transaction of amount 0: Monday 00:00 (a date
\* without time), 03:00 and 10:00, Thursday 08:00, Saturday 03:00 and 10:00,
\* Sunday 10:00, and an unparseable date
FechasCero == {0, 3, 10, 80, 123, 130, 154, NaT}
FilasCero ==
    {Fila(f, 0, "Pagado", t, q) : f \in FechasCero, t \in {"Fondeo", "Retiro"},
                                  q \in {"Natural", "Jurídica"}}
FramesCero == {[columns |-> Columnas, rows |-> [r \in {z} |-> 1]] : z \in FilasCero}

\* Frames of three busy days of 11M transactions, a quarter of them
\* rejected, with or without a fourth day of six rejected ones and a 200M
\* transaction five weeks later
k7 == Fila(58, 11, "Pagado", "Fondeo", "Natural")
k8 == Fila(850, 200, "Pagado", "Giro", "Natural")
k9 == Fila(82, 11, "Rechazado", "Retiro", "Natural")
CatalogoCritico == {k1, k2, k3, k4, k7, k8, k9}

FramesCritico ==
    {[columns |-> Columnas, rows |-> b] :
        b \in {c \in [CatalogoCritico -> {0, 1, 3, 4, 6, 7, 8, 10, 11}] :
                  /\ c[k1] \in {7, 8} /\ c[k3] \in {7, 8}
                  /\ c[k2] \in {3, 4} /\ c[k4] \in {3, 4}
                  /\ c[k7] \in {10, 11}
                  /\ c[k8] \in {0, 1}
                  /\ c[k9] \in {0, 6}}}

\* Rows of the frames of two periods: 10M, 0 and -10M transactions on the
\* first day, 10M and 30M transactions two days later, and one undated
h1 == Fila(10, 10, "Pagado", "Fondeo", "Natural")
h2 == Fila(11, 0, "Pagado", "Fondeo", "Natural")
h3 == Fila(12, -10, "Pagado", "Fondeo", "Natural")
h4 == Fila(58, 10, "Pagado", "Fondeo", "Natural")
h5 == Fila(59, 30, "Pagado", "Fondeo", "Natural")
h6 == Fila(NaT, 10, "Pagado", "Fondeo", "Natural")
CatalogoCambio == {h1, h2, h3, h4, h5, h6}

FramesCambio ==
    {[columns |-> C, rows |-> b] :
        C \in {Columnas, Columnas \ {FECHA}, Columnas \ {MONTO}},
        b \in {c \in [CatalogoCambio -> {0, 1, MaxMitad - 1, MaxMitad}] :
                  /\ c[h6] <= 1
                  /\ \A r \in CatalogoCambio \ {h6} : c[r] # 1}}

\* Rows of the frames of the anomaly detector: transactions of 1M at 10:00
\* on two days, of 3M on a third day, of 1M at 03:00, 05:00 and 22:00, and
\* one undated
an1 == Fila(10, 1, "Pagado", "Fondeo", "Natural")
an2 == Fila(34, 1, "Pagado", "Fondeo", "Natural")
an3 == Fila(58, 3, "Pagado", "Fondeo", "Natural")
an4 == Fila(27, 1, "Pagado", "Fondeo", "Natural")
an5 == Fila(5, 1, "Pagado", "Fondeo", "Natural")
an6 == Fila(22, 1, "Pagado", "Fondeo", "Natural")
an7 == Fila(NaT, 1, "Pagado", "Fondeo", "Natural")
CatalogoAnomalos == {an1, an2, an3, an4, an5, an6, an7}

FramesAnomalos ==
    {[columns |-> C, rows |-> b] :
        C \in {Columnas, Columnas \ {FECHA}, Columnas \ {MONTO}},
        b \in {c \in [CatalogoAnomalos -> {0, 1, 3, 4, 5, 10, 60, 130}] :
                  /\ c[an1] \in {0, 1, 3, 60, 130}
                  /\ c[an3] \in {0, 1, 4, 5, 10}
                  /\ \A r \in {an2, an4, an5, an6, an7} : c[r] <= 1}}

\* Frames of 20, 21 and 22 transactions over two consecutive days
FramesFrecuentes ==
    {[columns |-> Columnas, rows |-> [r \in {k1, k3} |-> IF r = k1 THEN n ELSE 1]] :
        n \in {19, 20, 21}}

\* Rows of the table of two clients: a rejected 11M transaction of client A
\* and a paid 900M transaction of client B
FilaDe(cliente, r) ==
    [cliente |-> cliente, fecha |-> r.fecha, monto |-> r.monto,
     estado |-> r.estado, tipo |-> r.tipo, persona |-> r.persona]
a1 == FilaDe("A", Fila(10, 11, "Rechazado", "Retiro", "Natural"))
b1 == FilaDe("B", Fila(10, 900, "Pagado", "Giro", "Jurídica"))
CatalogoCartera == {a1, b1}
ClientesCartera == {"A", "B"}

Tablas ==
    {[columns |-> Columnas \cup {CLIENTE}, rows |-> b] :
        b \in [CatalogoCartera -> 0..MaxCartera]}

\* GAFI profiles: None, the dict of clasificar_perfil_gafi (no score_riesgo)
\* and dicts of caracterizar_cliente_gafi with a score_riesgo
PerfilScores == {0, 95, 100}
ClavesCaracterizacion ==
    {"nivel_riesgo_inicial", "score_riesgo", "perfil_transaccional",
     "banderas_riesgo", "metricas_consolidadas", "timestamp_analisis"}
Perfiles ==
    {PerfilNone, [keys |-> {"perfil", "nivel_riesgo", "score", "factores"},
                  score_riesgo |-> 0]}
    \cup {[keys |-> ClavesCaracterizacion, score_riesgo |-> s] : s \in PerfilScores}

Prioridades == {"Crítica", "Alta", "Media", "Baja"}
TiposAlerta == {"Operacional", "UIAF", "Compliance", "Fraude", "Reputacional"}

\* the alerts given to priorizar_alertas
AlertasPrueba ==
    {Alerta("CUST", <<u>>, 0, "Operacional", p, "Alerta Operacional", 0, 1, 0,
            "Revisar y validar", 0, p \in {"Crítica", "Alta"}, dias) :
        u \in Uuids, p \in Prioridades, dias \in {2, 5}}

SeqsHasta(S, n) == UNION {[1..k -> S] : k \in 0..n}

Cliente == "Cliente"
SinResultado == <<>>

-----------------------------------------------------------------------------
(* Operations *)

\* number of uuid4() calls of one run of generar_alertas_automaticas
MaxLlamadasUuid == 7
LlamadasUuid(d, p) ==
    Len(generar_alertas_automaticas(d, calcular_score_integral(d, p), 0,
                                    [i \in 1..MaxLlamadasUuid |-> "00000000"]))

\* number of uuid4() calls made for the first m clients of the list
LlamadasCartera(d, lista, m) ==
    Sum([i \in 1..m |-> LlamadasUuid(FiltrarCliente(d, lista[i]), PerfilNone)], 1..m)

\* The dict built by the loop over lista_clientes: the clients are analysed
\* in list order, each call taking the next uuid4() values, and a later
\* entry of the same client replaces the earlier one.
analizar_riesgo_cartera(d, lista, now, draws) ==
    [cliente \in {lista[i] : i \in 1..Len(lista)} |->
        LET ultimo == CHOOSE i \in 1..Len(lista) :
                          /\ lista[i] = cliente
                          /\ \A j \in (i + 1)..Len(lista) : lista[j] # cliente
            df_cliente == FiltrarCliente(d, cliente)
        IN analizar_riesgo_cliente(df_cliente, PerfilNone, cliente, now,
               SubSeq(draws, LlamadasCartera(d, lista, ultimo - 1) + 1,
                             LlamadasCartera(d, lista, ultimo)))]

\* one call of analizar_riesgo_cartera; the clock has advanced when it returns
AnalizarCartera ==
    /\ pc \in {"inicio", "segunda"}
    /\ reloj < MaxReloj
    /\ \E draws \in [1..LlamadasCartera(df_completo, lista_clientes, Len(lista_clientes)) -> Uuids] :
          analisis_cartera' =
              analizar_riesgo_cartera(df_completo, lista_clientes, reloj, draws)
    /\ reloj' = reloj + 1
    /\ pc' = IF pc = "inicio" THEN "primera" ELSE "ambas"
    /\ UNCHANGED <<vars_gafi, metricas, df_completo, lista_clientes, df_completo2,
                   lista_clientes2, analisis_cartera2, df, perfil, analisis,
                   analisis2, evaluacion, alertas_in, alertas_out, valor, umbral,
                   alerta>>

\* a call on another table and another list
ReanalizarCartera ==
    /\ pc \in {"inicio", "primera"}
    /\ reloj < MaxReloj
    /\ \E draws \in [1..LlamadasCartera(df_completo2, lista_clientes2, Len(lista_clientes2)) -> Uuids] :
          analisis_cartera2' =
              analizar_riesgo_cartera(df_completo2, lista_clientes2, reloj, draws)
    /\ reloj' = reloj + 1
    /\ pc' = IF pc = "inicio" THEN "segunda" ELSE "ambas"
    /\ UNCHANGED <<vars_gafi, metricas, df_completo, lista_clientes, df_completo2,
                   lista_clientes2, analisis_cartera, df, perfil, analisis,
                   analisis2, evaluacion, alertas_in, alertas_out, valor, umbral,
                   alerta>>

Analizar ==
    /\ pc = "inicio"
    /\ \E draws \in [1..LlamadasUuid(df, perfil) -> Uuids] :
          analisis' = analizar_riesgo_cliente(df, perfil, Cliente, reloj, draws)
    /\ pc' = "analizado"
    /\ UNCHANGED <<vars_gafi, metricas, vars_cartera, df, perfil, reloj, analisis2, evaluacion, alertas_in,
                   alertas_out, valor, umbral, alerta>>

Reanalizar ==
    /\ pc = "analizado"
    /\ \E draws \in [1..LlamadasUuid(df, perfil) -> Uuids] :
          analisis2' = analizar_riesgo_cliente(df, perfil, Cliente, reloj, draws)
    /\ pc' = "reanalizado"
    /\ UNCHANGED <<vars_gafi, metricas, vars_cartera, df, perfil, reloj, analisis, evaluacion, alertas_in,
                   alertas_out, valor, umbral, alerta>>

\* the system clock advances between calls
Tic ==
    /\ pc \in {"inicio", "analizado"}
    /\ reloj < MaxReloj
    /\ reloj' = reloj + 1
    /\ UNCHANGED <<vars_gafi, metricas, vars_cartera, df, perfil, pc, analisis, analisis2, evaluacion, alertas_in,
                   alertas_out, valor, umbral, alerta>>

Evaluar ==
    /\ pc = "inicio"
    /\ \E ordenado \in OrdenacionesDe(df) :
          evaluacion' = evaluar_banderas_riesgo(df, ordenado)
    /\ pc' = "evaluado"
    /\ UNCHANGED <<vars_gafi, metricas, vars_cartera, df, perfil, reloj, analisis, analisis2, alertas_in,
                   alertas_out, valor, umbral, alerta>>

\* evaluar_banderas_riesgo on the frame analizar_riesgo_cliente was given
EvaluarAnalizado ==
    /\ pc = "analizado"
    /\ \E ordenado \in OrdenacionesDe(df) :
          evaluacion' = evaluar_banderas_riesgo(df, ordenado)
    /\ pc' = "analizado_evaluado"
    /\ UNCHANGED <<vars_gafi, metricas, vars_cartera, df, perfil, reloj, analisis, analisis2, alertas_in,
                   alertas_out, valor, umbral, alerta>>

\* the four functions that derive the metrics, on the same frame
Perfilar ==
    /\ pc = "inicio"
    /\ metricas' = [perfilador |-> caracterizar_cliente_gafi(df),
                    clasificador |-> clasificar_perfil_gafi(df),
                    comportamiento |-> calcular_metricas_comportamiento(df),
                    scorer |-> _calcular_score_gafi_frecuencia(df)]
    /\ pc' = "perfilado"
    /\ UNCHANGED <<vars_gafi, vars_cartera, df, perfil, reloj, analisis, analisis2, evaluacion,
                   alertas_in, alertas_out, valor, umbral, alerta>>

ClasificarPerfil ==
    /\ pc = "inicio"
    /\ clasificacion' = clasificar_perfil_gafi_dict(df)
    /\ pc' = "perfil_clasificado"
    /\ UNCHANGED <<caracterizacion, resumen, reporte_cartera, patrones, metricas,
                   vars_cartera, df, perfil, reloj, analisis, analisis2, evaluacion,
                   alertas_in, alertas_out, valor, umbral, alerta>>

Caracterizar ==
    /\ pc = "inicio"
    /\ caracterizacion' = caracterizar_cliente_gafi_dict(df, reloj)
    /\ pc' = "caracterizado"
    /\ UNCHANGED <<clasificacion, resumen, reporte_cartera, patrones, metricas,
                   vars_cartera, df, perfil, reloj, analisis, analisis2, evaluacion,
                   alertas_in, alertas_out, valor, umbral, alerta>>

\* obtener_resumen_caracterizacion on the result of caracterizar_cliente_gafi
Resumir ==
    /\ pc = "caracterizado"
    /\ resumen' = obtener_resumen_caracterizacion(caracterizacion)
    /\ pc' = "resumido"
    /\ UNCHANGED <<clasificacion, caracterizacion, reporte_cartera, patrones, metricas,
                   vars_cartera, df, perfil, reloj, analisis, analisis2, evaluacion,
                   alertas_in, alertas_out, valor, umbral, alerta>>

CaracterizarCartera ==
    /\ pc = "inicio"
    /\ reporte_cartera' = caracterizar_cartera_clientes(df_completo, lista_clientes, reloj)
    /\ pc' = "cartera_caracterizada"
    /\ UNCHANGED <<clasificacion, caracterizacion, resumen, patrones, metricas,
                   vars_cartera, df, perfil, reloj, analisis, analisis2, evaluacion,
                   alertas_in, alertas_out, valor, umbral, alerta>>

DetectarPatrones ==
    /\ pc = "inicio"
    /\ patrones' = detectar_patrones_anomalos(df)
    /\ pc' = "patrones"
    /\ UNCHANGED <<clasificacion, caracterizacion, resumen, reporte_cartera, metricas,
                   vars_cartera, df, perfil, reloj, analisis, analisis2, evaluacion,
                   alertas_in, alertas_out, valor, umbral, alerta>>

Priorizar ==
    /\ pc = "alertas"
    /\ alertas_out' = priorizar_alertas(alertas_in)
    /\ pc' = "priorizado"
    /\ UNCHANGED <<vars_gafi, metricas, vars_cartera, df, perfil, reloj, analisis, analisis2, evaluacion, alertas_in,
                   valor, umbral, alerta>>

Clasificar ==
    /\ pc = "umbral"
    /\ \E tipo \in TiposAlerta, draws \in [1..1 -> Uuids] :
          alerta' = clasificar_alerta(tipo, valor, umbral, reloj, draws)
    /\ pc' = "clasificado"
    /\ UNCHANGED <<vars_gafi, metricas, vars_cartera, df, perfil, reloj, analisis, analisis2, evaluacion, alertas_in,
                   alertas_out, valor, umbral>>

-----------------------------------------------------------------------------
(* Specifications *)

FrameVacio == [columns |-> Columnas, rows |-> [r \in Catalogo |-> 0]]
TablaVacia == [columns |-> Columnas \cup {CLIENTE}, rows |-> <<>>]

SinEntradas ==
    /\ analisis = SinResultado
    /\ analisis2 = SinResultado
    /\ evaluacion = SinResultado
    /\ alertas_out = <<>>
    /\ alerta = SinResultado
    /\ metricas = SinResultado
    /\ df_completo = TablaVacia
    /\ lista_clientes = <<>>
    /\ analisis_cartera = SinResultado
    /\ df_completo2 = TablaVacia
    /\ lista_clientes2 = <<>>
    /\ analisis_cartera2 = SinResultado
    /\ clasificacion = SinResultado
    /\ caracterizacion = SinResultado
    /\ resumen = SinResultado
    /\ reporte_cartera = SinResultado
    /\ patrones = SinResultado

\* one client: analizar_riesgo_cliente and evaluar_banderas_riesgo
Init ==
    /\ df \in FramesCliente
    /\ perfil \in Perfiles
    /\ reloj = 0
    /\ pc = "inicio"
    /\ alertas_in = <<>>
    /\ valor = 0
    /\ umbral = 0
    /\ SinEntradas

Next == Analizar \/ Evaluar

Spec == Init /\ [][Next]_vars

\* the same client analysed twice while the clock runs
InitDet ==
    /\ Init
    /\ len(df) <= MaxFilasDet

NextDet == Analizar \/ Reanalizar \/ Tic

SpecDet == InitDet /\ [][NextDet]_vars

\* evaluar_banderas_riesgo on the fragmentation frames
InitFrag ==
    /\ df \in FramesFrag
    /\ perfil = PerfilNone
    /\ reloj = 0
    /\ pc = "inicio"
    /\ alertas_in = <<>>
    /\ valor = 0
    /\ umbral = 0
    /\ SinEntradas

NextFrag == Evaluar

SpecFrag == InitFrag /\ [][NextFrag]_vars

\* priorizar_alertas on every list of at most MaxAlertas alerts
InitPriorizar ==
    /\ df = FrameVacio
    /\ perfil = PerfilNone
    /\ reloj = 0
    /\ pc = "alertas"
    /\ alertas_in \in SeqsHasta(AlertasPrueba, MaxAlertas)
    /\ valor = 0
    /\ umbral = 0
    /\ SinEntradas

NextPriorizar == Priorizar

SpecPriorizar == InitPriorizar /\ [][NextPriorizar]_vars

\* clasificar_alerta on every valor and umbral of the bounds
InitClasificar ==
    /\ df = FrameVacio
    /\ perfil = PerfilNone
    /\ reloj = 0
    /\ pc = "umbral"
    /\ alertas_in = <<>>
    /\ valor \in 0..MaxValor
    /\ umbral \in -1..MaxUmbral
    /\ SinEntradas

NextClasificar == Clasificar

SpecClasificar == InitClasificar /\ [][NextClasificar]_vars

\* the Scorer and the red-flag evaluation on the same frame
InitSenal ==
    /\ Init
    /\ perfil = PerfilNone

NextSenal == Analizar \/ EvaluarAnalizado

SpecSenal == InitSenal /\ [][NextSenal]_vars

\* analizar_riesgo_cliente on the client frames and the matrix frames
InitMatriz ==
    /\ df \in FramesCliente \cup FramesMatriz
    /\ perfil \in Perfiles
    /\ reloj = 0
    /\ pc = "inicio"
    /\ alertas_in = <<>>
    /\ valor = 0
    /\ umbral = 0
    /\ SinEntradas

NextMatriz == Analizar

SpecMatriz == InitMatriz /\ [][NextMatriz]_vars

\* analizar_riesgo_cliente and evaluar_banderas_riesgo on frames that lack
\* some of the optional columns
InitColumnas ==
    /\ df \in FramesColumnas
    /\ perfil = PerfilNone
    /\ reloj = 0
    /\ pc = "inicio"
    /\ alertas_in = <<>>
    /\ valor = 0
    /\ umbral = 0
    /\ SinEntradas

NextColumnas == Analizar \/ Evaluar

SpecColumnas == InitColumnas /\ [][NextColumnas]_vars

\* the Scorer and the red-flag evaluation on a single transaction of
\* amount 0, without a characterisation score
InitCero ==
    /\ df \in FramesCero
    /\ perfil \in {p \in Perfiles : "score_riesgo" \notin p.keys}
    /\ reloj = 0
    /\ pc = "inicio"
    /\ alertas_in = <<>>
    /\ valor = 0
    /\ umbral = 0
    /\ SinEntradas

NextCero == Analizar \/ EvaluarAnalizado

SpecCero == InitCero /\ [][NextCero]_vars

\* the derived metrics of one client
InitMetricas ==
    /\ Init
    /\ perfil = PerfilNone

NextMetricas == Perfilar

SpecMetricas == InitMetricas /\ [][NextMetricas]_vars

\* the GAFI-layer functions on frames with and without rows and columns
InitContrato ==
    /\ df \in FramesCliente \cup FramesColumnas
    /\ perfil = PerfilNone
    /\ reloj = 0
    /\ pc = "inicio"
    /\ alertas_in = <<>>
    /\ valor = 0
    /\ umbral = 0
    /\ SinEntradas

NextContrato == ClasificarPerfil \/ Evaluar

SpecContrato == InitContrato /\ [][NextContrato]_vars

\* caracterizar_cliente_gafi and its two consumers: a client's frame and
\* its summary, or a table of several clients
InitCaracterizar ==
    /\ perfil = PerfilNone
    /\ reloj = 0
    /\ pc = "inicio"
    /\ alertas_in = <<>>
    /\ valor = 0
    /\ umbral = 0
    /\ analisis = SinResultado
    /\ analisis2 = SinResultado
    /\ evaluacion = SinResultado
    /\ alertas_out = <<>>
    /\ alerta = SinResultado
    /\ metricas = SinResultado
    /\ analisis_cartera = SinResultado
    /\ df_completo2 = TablaVacia
    /\ lista_clientes2 = <<>>
    /\ analisis_cartera2 = SinResultado
    /\ clasificacion = SinResultado
    /\ caracterizacion = SinResultado
    /\ resumen = SinResultado
    /\ reporte_cartera = SinResultado
    /\ patrones = SinResultado
    /\ \/ /\ df \in FramesCliente \cup FramesColumnas \cup FramesFrecuentes
          /\ df_completo = TablaVacia
          /\ lista_clientes = <<>>
       \/ /\ df = FrameVacio
          /\ df_completo \in Tablas
          /\ lista_clientes \in SeqsHasta(ClientesCartera, MaxLista)

NextCaracterizar == Caracterizar \/ Resumir \/ CaracterizarCartera

SpecCaracterizar == InitCaracterizar /\ [][NextCaracterizar]_vars

\* evaluar_banderas_riesgo on the frames of two periods
InitCambio ==
    /\ df \in FramesCambio
    /\ perfil = PerfilNone
    /\ reloj = 0
    /\ pc = "inicio"
    /\ alertas_in = <<>>
    /\ valor = 0
    /\ umbral = 0
    /\ SinEntradas

NextCambio == Evaluar

SpecCambio == InitCambio /\ [][NextCambio]_vars

\* detectar_patrones_anomalos on the frames of the anomaly detector
InitAnomalos ==
    /\ df \in FramesAnomalos
    /\ perfil = PerfilNone
    /\ reloj = 0
    /\ pc = "inicio"
    /\ alertas_in = <<>>
    /\ valor = 0
    /\ umbral = 0
    /\ SinEntradas

NextAnomalos == DetectarPatrones

SpecAnomalos == InitAnomalos /\ [][NextAnomalos]_vars

\* analizar_riesgo_cliente on the client frames and on the busy ones
InitCritico ==
    /\ df \in FramesCliente \cup FramesCritico
    /\ perfil \in Perfiles
    /\ reloj = 0
    /\ pc = "inicio"
    /\ alertas_in = <<>>
    /\ valor = 0
    /\ umbral = 0
    /\ SinEntradas

NextCritico == Analizar

SpecCritico == InitCritico /\ [][NextCritico]_vars

\* one analysis at some reading of the system clock
InitReview == Init

NextReview == Analizar \/ Tic

SpecReview == InitReview /\ [][NextReview]_vars

\* analizar_riesgo_cartera on two tables and two lists, in either order
InitCartera ==
    /\ df = FrameVacio
    /\ perfil = PerfilNone
    /\ reloj = 0
    /\ pc = "inicio"
    /\ alertas_in = <<>>
    /\ valor = 0
    /\ umbral = 0
    /\ analisis = SinResultado
    /\ analisis2 = SinResultado
    /\ evaluacion = SinResultado
    /\ alertas_out = <<>>
    /\ alerta = SinResultado
    /\ metricas = SinResultado
    /\ df_completo \in Tablas
    /\ lista_clientes \in SeqsHasta(ClientesCartera, MaxLista)
    /\ analisis_cartera = SinResultado
    /\ df_completo2 \in Tablas
    /\ lista_clientes2 \in SeqsHasta(ClientesCartera, MaxLista)
    /\ analisis_cartera2 = SinResultado
    /\ clasificacion = SinResultado
    /\ caracterizacion = SinResultado
    /\ resumen = SinResultado
    /\ reporte_cartera = SinResultado
    /\ patrones = SinResultado

NextCartera == AnalizarCartera \/ ReanalizarCartera

SpecCartera == InitCartera /\ [][NextCartera]_vars

-----------------------------------------------------------------------------
(* Properties *)

Analizado == pc = "analizado" /\ ~empty(df)
AnalizadoVacio == pc = "analizado" /\ empty(df)

\* the weighted sum of the three sub-scores of a verdict, in hundredths
SumaPonderada(sc) == 40 * sc.score_gafi + 35 * sc.score_uiaf + 25 * sc.score_operativo

\* C1: for every non-empty transaction set and every GAFI profile the total
\* score and the three component scores of calcular_score_integral lie in
\* 0..100.
C1_ScoresEnRango ==
    Analizado =>
        /\ analisis.scoring.score_total \in 0..100
        /\ analisis.scoring.score_gafi \in 0..100
        /\ analisis.scoring.score_uiaf \in 0..100
        /\ analisis.scoring.score_operativo \in 0..100

C1_Witness ==
    /\ Analizado
    /\ "score_riesgo" \in perfil.keys
    /\ analisis.scoring.score_gafi = 100
    /\ analisis.scoring.score_uiaf > 0
    /\ analisis.scoring.score_operativo > 0

NivelEsperado(t) ==
    IF t <= 30 THEN "Bajo"
    ELSE IF t <= 50 THEN "Medio"
    ELSE IF t <= 75 THEN "Alto"
    ELSE "Crítico"

RangoNivel(n) ==
    CASE n = "Bajo" -> 1 [] n = "Medio" -> 2 [] n = "Alto" -> 3 [] n = "Crítico" -> 4

\* C2: the risk level is a non-decreasing step function of the total score
\* with breakpoints 30/50/75 (Bajo, Medio, Alto, Crítico); the level of every
\* non-empty score breakdown is that function of its total; an empty input
\* yields 'No Evaluado' with total 0.
C2_NivelEscalon ==
    /\ \A t \in 0..100 : clasificar_nivel_riesgo(t) = NivelEsperado(t)
    /\ \A t \in 0..99 :
          RangoNivel(clasificar_nivel_riesgo(t)) <= RangoNivel(clasificar_nivel_riesgo(t + 1))
    /\ Analizado =>
          analisis.scoring.nivel_riesgo = NivelEsperado(analisis.scoring.score_total)
    /\ AnalizadoVacio =>
          /\ analisis.scoring.nivel_riesgo = "No Evaluado"
          /\ analisis.scoring.score_total = 0

C2_Witness ==
    /\ Analizado
    /\ analisis.scoring.score_total = 76
    /\ analisis.scoring.nivel_riesgo = "Crítico"

\* C3 as claimed: the total score is the weighted sum of the sub-scores
\* rounded to the nearest integer (a tie may go either way).
C3_Redondeado ==
    Analizado =>
        LET w == SumaPonderada(analisis.scoring)
            t == analisis.scoring.score_total
        IN 2 * (100 * t - w) <= 100 /\ 2 * (w - 100 * t) <= 100

\* C3 amended: the total score is the weighted sum of the sub-scores
\* truncated to an integer, never rounded up.
C3_Truncado ==
    Analizado =>
        LET w == SumaPonderada(analisis.scoring)
            t == analisis.scoring.score_total
        IN 100 * t <= w /\ w < 100 * t + 100

C3_Witness ==
    /\ Analizado
    /\ SumaPonderada(analisis.scoring) % 100 > 50
    /\ 100 * analisis.scoring.score_total < SumaPonderada(analisis.scoring)

\* C4: for an empty transaction set analizar_riesgo_cliente returns the
\* canonical empty verdict (all scores 0, 'No Evaluado', no alerts, empty
\* matrix, the single insufficient-data recommendation, both flags false)
\* and the red-flag evaluation has no flags and score 0.
C4_VeredictoVacio ==
    /\ AnalizadoVacio =>
          /\ analisis.scoring.score_total = 0
          /\ analisis.scoring.score_gafi = 0
          /\ analisis.scoring.score_uiaf = 0
          /\ analisis.scoring.score_operativo = 0
          /\ analisis.scoring.nivel_riesgo = "No Evaluado"
          /\ Len(analisis.alertas) = 0
          /\ DOMAIN analisis.matriz_riesgo = {}
          /\ Len(analisis.recomendaciones) = 1
          /\ analisis.recomendaciones[1].texto = "Sin datos suficientes para análisis"
          /\ ~analisis.requiere_due_diligence_reforzada
          /\ ~analisis.requiere_escalamiento
    /\ (pc = "evaluado" /\ empty(df)) =>
          /\ Len(evaluacion.banderas) = 0
          /\ evaluacion.total_banderas = 0
          /\ evaluacion.score_riesgo = 0

C4_Witness ==
    /\ AnalizadoVacio
    /\ Len(analisis.recomendaciones) = 1
    /\ analisis.scoring.nivel_riesgo = "No Evaluado"

\* C5: two runs of analizar_riesgo_cliente on the same transactions and the
\* same profile return verdicts that are equal in every field.
C5_Determinismo ==
    pc = "reanalizado" => analisis = analisis2

RangoPrioridad(p) ==
    CASE p = "Crítica" -> 1 [] p = "Alta" -> 2 [] p = "Media" -> 3 [] p = "Baja" -> 4

Veces(s, x) == Cardinality({i \in 1..Len(s) : s[i] = x})

\* C6: the output of priorizar_alertas is a permutation of its input in
\* which Crítica precedes Alta precedes Media precedes Baja and, within one
\* priority, fewer dias_para_accion come first.
C6_OrdenAlertas ==
    pc = "priorizado" =>
        /\ Len(alertas_out) = Len(alertas_in)
        /\ \A i \in 1..Len(alertas_in) :
              Veces(alertas_out, alertas_in[i]) = Veces(alertas_in, alertas_in[i])
        /\ \A i, j \in 1..Len(alertas_out) :
              i < j =>
                /\ RangoPrioridad(alertas_out[i].prioridad)
                      <= RangoPrioridad(alertas_out[j].prioridad)
                /\ alertas_out[i].prioridad = alertas_out[j].prioridad
                      => alertas_out[i].dias_para_accion <= alertas_out[j].dias_para_accion

C6_Witness ==
    /\ pc = "priorizado"
    /\ Len(alertas_in) = 3
    /\ alertas_in[1].prioridad = "Alta" /\ alertas_in[1].dias_para_accion = 5
    /\ alertas_in[2].prioridad = "Crítica"
    /\ alertas_in[3].prioridad = "Alta" /\ alertas_in[3].dias_para_accion = 2
    /\ alertas_out[1].prioridad = "Crítica"
    /\ alertas_out[2].dias_para_accion = 2

\* number of transactions of a day whose amount m satisfies
\* |m - mean| <= 20% of |mean|, mean being the day's mean amount
DentroDeBanda(d, dia) ==
    LET grupo == FilasDelDia(d, dia)
        n == Cuenta(d, grupo)
        S == SumaMonto(d, grupo)
    IN Cuenta(d, {r \in grupo : 10 * Abs(n * r.monto - S) <= 2 * Abs(S)})

EsFragmentacion(b) == b.tipo = "Posible Fragmentación (Structuring)"

\* C7: the structuring flag is present iff some day has at least 5
\* transactions whose amounts lie within 20% of that day's mean amount, and
\* it is reported at most once.
C7_Fragmentacion ==
    (pc = "evaluado" /\ ~empty(df)) =>
        /\ (\E i \in 1..Len(evaluacion.banderas) : EsFragmentacion(evaluacion.banderas[i]))
              <=> (\E dia \in Dias(df) : DentroDeBanda(df, dia) >= 5)
        /\ Len(SelectSeq(evaluacion.banderas, EsFragmentacion)) <= 1

EsScoreCritico(a) ==
    /\ a.id_alerta[1] = "SCORE"
    /\ a.prioridad = "Crítica"
    /\ a.dias_para_accion = 1

\* C8: the alert list of a non-empty transaction set contains the
\* score-critical alert (Crítica, 1 day) iff score_total >= 76.
C8_ScoreCritico ==
    Analizado =>
        ((\E i \in 1..Len(analisis.alertas) : EsScoreCritico(analisis.alertas[i]))
            <=> analisis.scoring.score_total >= 76)

C8_Witness ==
    /\ Analizado
    /\ analisis.scoring.score_total >= 76
    /\ Len(analisis.alertas) >= 2
    /\ EsScoreCritico(analisis.alertas[1])

\* C9: clasificar_alerta gives, for d = (valor - umbral)/umbral and
\* umbral > 0, Crítica/2 when d > 1, else Alta/5 when d > 0.5, else Media/10
\* when d > 0.2, else Baja/30; for umbral <= 0 it gives Baja/30.
C9_Clasificacion ==
    pc = "clasificado" =>
        LET d5 == 5 * (valor - umbral)   \* 5 * d * umbral
            esperada ==
                IF umbral <= 0 THEN <<"Baja", 30>>
                ELSE IF d5 > 5 * umbral THEN <<"Crítica", 2>>
                ELSE IF 2 * d5 > 5 * umbral THEN <<"Alta", 5>>
                ELSE IF d5 > umbral THEN <<"Media", 10>>
                ELSE <<"Baja", 30>>
        IN <<alerta.prioridad, alerta.dias_para_accion>> = esperada

C9_Witness ==
    /\ pc = "clasificado"
    /\ umbral = 5
    /\ valor = 10
    /\ alerta.prioridad = "Alta"
    /\ alerta.dias_para_accion = 5

\* C10: every alert of a verdict whose priority is Alta or Crítica has
\* requiere_reporte_uiaf = true.
C10_ReporteUIAF ==
    Analizado =>
        \A i \in 1..Len(analisis.alertas) :
            analisis.alertas[i].prioridad \in {"Alta", "Crítica"}
                => analisis.alertas[i].requiere_reporte_uiaf

\* C11: the score_uiaf of the score breakdown equals the score of the
\* red-flag evaluation of the same transactions (the sum of the points of
\* the flags, capped at 100).
C11_SenalBanderas ==
    pc = "analizado_evaluado" =>
        analisis.scoring.score_uiaf = evaluacion.score_riesgo

HayAltaOCritica ==
    \E i \in 1..Len(analisis.alertas) :
        analisis.alertas[i].prioridad \in {"Alta", "Crítica"}

\* C12: in every non-empty verdict requiere_escalamiento is true iff the
\* alert list holds an alert of priority Alta or Crítica.
C12_Escalamiento ==
    Analizado => (analisis.requiere_escalamiento <=> HayAltaOCritica)

C12_Witness ==
    /\ Analizado
    /\ analisis.requiere_escalamiento
    /\ \E i \in 1..Len(analisis.alertas) : analisis.alertas[i].prioridad = "Alta"
    /\ \A i \in 1..Len(analisis.alertas) : analisis.alertas[i].prioridad # "Crítica"

\* C13: in every non-empty verdict requiere_due_diligence_reforzada is true
\* iff score_total >= 70.
C13_DueDiligence ==
    Analizado =>
        (analisis.requiere_due_diligence_reforzada
            <=> analisis.scoring.score_total >= 70)

C13_Witness ==
    /\ Analizado
    /\ analisis.scoring.score_total = 70
    /\ analisis.requiere_due_diligence_reforzada

GapDDR == "Due Diligence Reforzada requerida"
GapMuestreo == "Volumen alto requiere revisión manual periódica"

\* C14: in the risk matrix of every non-empty verdict the due-diligence gap
\* is present iff score_total > 70, the manual-sampling gap iff the record
\* count is > 1000, there is no other gap, and apetito_riesgo_superado is
\* true iff score_total > 75.
C14_GapsControl ==
    Analizado =>
        LET m == analisis.matriz_riesgo
            g == {m.gaps_control[i] : i \in 1..Len(m.gaps_control)}
        IN /\ GapDDR \in g <=> analisis.scoring.score_total > 70
           /\ GapMuestreo \in g <=> len(df) > 1000
           /\ g \subseteq {GapDDR, GapMuestreo}
           /\ Len(m.gaps_control) = Cardinality(g)
           /\ m.apetito_riesgo_superado <=> analisis.scoring.score_total > 75

C14_Witness ==
    /\ Analizado
    /\ len(df) > 1000
    /\ analisis.matriz_riesgo.gaps_control = <<GapMuestreo>>
    /\ ~analisis.matriz_riesgo.apetito_riesgo_superado

Categorias == {"volumen", "frecuencia", "complejidad", "geografia"}

\* C15: in the risk matrix each of the four categories has an inherent
\* value in 0..100 and a residual value floor(7 * inherent / 10), not above
\* the inherent one; geografia is 50 with residual 35.
C15_Residual ==
    Analizado =>
        LET m == analisis.matriz_riesgo
        IN /\ DOMAIN m.riesgo_inherente = Categorias
           /\ DOMAIN m.riesgo_residual = Categorias
           /\ \A k \in Categorias :
                 /\ m.riesgo_inherente[k] \in 0..100
                 /\ m.riesgo_residual[k] = (7 * m.riesgo_inherente[k]) \div 10
                 /\ m.riesgo_residual[k] <= m.riesgo_inherente[k]
           /\ m.riesgo_inherente["geografia"] = 50
           /\ m.riesgo_residual["geografia"] = 35

\* the flags, the alert rules and the sub-score components with the columns
\* each one reads and, for a component, the most points it can add
BanderasDe(col) ==
    CASE col = MONTO -> {"Transacciones de Alto Valor", "Volumen Diario Inusual",
                         "Volumen Mensual Elevado",
                         "Posible Fragmentación (Structuring)",
                         "Cambio Brusco en Volumen", "Cambio Brusco en Frecuencia",
                         "Datos Inconsistentes"}
      [] col = FECHA -> {"Volumen Diario Inusual", "Volumen Mensual Elevado",
                         "Posible Fragmentación (Structuring)",
                         "Frecuencia Diaria Excesiva",
                         "Transacciones en Horario Inusual",
                         "Alta Actividad en Fin de Semana",
                         "Cambio Brusco en Volumen", "Cambio Brusco en Frecuencia"}
      [] col = ESTADO -> {"Alta Tasa de Rechazo"}
      [] OTHER -> {}

AlertasDe(col) ==
    CASE col = MONTO -> {"VOL", "TKT", "FRAG"}
      [] col = FECHA -> {"FRAG"}
      [] col = ESTADO -> {"RECH"}
      [] col = TIPO_TRA -> {"DIV"}
      [] OTHER -> {}

Componentes ==
    {[sub |-> "score_gafi", cols |-> {MONTO}, max |-> 25],
     [sub |-> "score_gafi", cols |-> {FECHA}, max |-> 20],
     [sub |-> "score_gafi", cols |-> {TIPO_TRA}, max |-> 15],
     [sub |-> "score_uiaf", cols |-> {MONTO}, max |-> 20],
     [sub |-> "score_uiaf", cols |-> {MONTO, FECHA}, max |-> 25],
     [sub |-> "score_uiaf", cols |-> {ESTADO}, max |-> 20],
     [sub |-> "score_operativo", cols |-> {TIPO_TRA}, max |-> 20],
     [sub |-> "score_operativo", cols |-> {MONTO}, max |-> 15],
     [sub |-> "score_operativo", cols |-> {ESTADO}, max |-> 25],
     [sub |-> "score_operativo", cols |-> {FECHA}, max |-> 15],
     [sub |-> "score_operativo", cols |-> {TIPO_PERSONA}, max |-> 10]}

\* the most a sub-score can be when only the components whose columns are
\* all present add points
TopeSubScore(sub, presentes) ==
    LET activos == {c \in Componentes : c.sub = sub /\ c.cols \subseteq presentes}
    IN Sum([c \in activos |-> c.max], activos)

CamposVeredicto ==
    {"cliente", "timestamp_analisis", "scoring", "alertas", "matriz_riesgo",
     "recomendaciones", "requiere_due_diligence_reforzada",
     "requiere_escalamiento", "proximo_review"}

\* C16: for every non-empty frame and every set of absent optional columns,
\* no flag and no alert that reads an absent column is emitted, every
\* sub-score component that reads an absent column adds 0, and the analysis
\* returns a full verdict.
C16_ColumnasAusentes ==
    /\ Analizado =>
          /\ DOMAIN analisis = CamposVeredicto
          /\ analisis.scoring.nivel_riesgo \in {"Bajo", "Medio", "Alto", "Crítico"}
          /\ \A sub \in {"score_gafi", "score_uiaf", "score_operativo"} :
                analisis.scoring[sub] \in 0..TopeSubScore(sub, df.columns)
          /\ \A col \in Columnas \ df.columns :
                \A i \in 1..Len(analisis.alertas) :
                    analisis.alertas[i].id_alerta[1] \notin AlertasDe(col)
    /\ (pc = "evaluado" /\ ~empty(df)) =>
          /\ \A col \in Columnas \ df.columns :
                \A i \in 1..Len(evaluacion.banderas) :
                    evaluacion.banderas[i].tipo \notin BanderasDe(col)

C16_Witness ==
    /\ pc = "evaluado"
    /\ ESTADO \notin df.columns
    /\ FECHA \in df.columns
    /\ df.rows[c1] = MaxColumnas
    /\ df.rows[c2] = 0
    /\ Len(evaluacion.banderas) > 0

\* C17: for a single transaction of amount 0, whatever its date, the
\* red-flag evaluation holds the data-inconsistency flag (Baja, 5 points)
\* and no other flag, and the total score classifies as Bajo.
C17_MontoCero ==
    pc = "analizado_evaluado" =>
        /\ Len(evaluacion.banderas) = 1
        /\ evaluacion.banderas[1].tipo = "Datos Inconsistentes"
        /\ evaluacion.banderas[1].severidad = "Baja"
        /\ evaluacion.banderas[1].puntos = 5
        /\ analisis.scoring.nivel_riesgo = "Bajo"

\* the rejected or returned transactions are at least 20% of the frame
Rechazo20(d) ==
    100 * Cuenta(d, {r \in Filas(d) : r.estado \in {"Rechazado", "Retornado"}})
        >= 20 * len(d)

EsBanderaRechazo(b) == b.tipo = "Alta Tasa de Rechazo" /\ b.puntos = 12

EsAlertaRechazo(a) == a.id_alerta[1] = "RECH" /\ a.prioridad \in {"Media", "Alta"}

\* C18: the red-flag evaluation holds the high-rejection-rate flag (12
\* points) and the alert list of the verdict the rejection-rate alert
\* (Media or Alta) iff at least 20% of the transactions are rejected or
\* returned.
C18_Rechazo20 ==
    (pc = "analizado_evaluado" /\ ~empty(df)) =>
        /\ (\E i \in 1..Len(evaluacion.banderas) : EsBanderaRechazo(evaluacion.banderas[i]))
              <=> Rechazo20(df)
        /\ (\E i \in 1..Len(analisis.alertas) : EsAlertaRechazo(analisis.alertas[i]))
              <=> Rechazo20(df)

\* equality of two quotients
Igual(a, b) == a[1] * b[2] = b[1] * a[2]

\* C19: for a frame with dated rows the active-days span and the daily
\* frequency are the same in the Behavior Profiler, the GAFI classifier,
\* the behaviour-metrics function and the Scorer's GAFI fallback, and the
\* rejection rate is the same in the three that compute one.
C19_MetricasIguales ==
    (pc = "perfilado" /\ ConFecha(df) # {}) =>
        /\ \A f, g \in DOMAIN metricas :
              /\ metricas[f].dias_activo = metricas[g].dias_activo
              /\ Igual(metricas[f].frecuencia_diaria, metricas[g].frecuencia_diaria)
        /\ \A f, g \in {"perfilador", "clasificador", "comportamiento"} :
              Igual(metricas[f].tasa_rechazo, metricas[g].tasa_rechazo)

\* a verdict without the fields read from the clock
SinReloj(v) ==
    [v EXCEPT !.timestamp_analisis = 0,
              !.proximo_review = 0,
              !.alertas = [i \in 1..Len(v.alertas) |->
                              [v.alertas[i] EXCEPT !.fecha_deteccion = 0]]]

\* and without the uuid4() part of the alert ids
SinRelojNiUuid(v) ==
    [SinReloj(v) EXCEPT
        !.alertas = [i \in 1..Len(v.alertas) |->
                        [SinReloj(v).alertas[i] EXCEPT !.id_alerta = <<@[1]>>]]]

Listados(lista) == {lista[i] : i \in 1..Len(lista)}

\* the rows of client c are the same in the two tables
MismasFilas(c) ==
    \A r \in CatalogoCartera : r.cliente = c => df_completo.rows[r] = df_completo2.rows[r]

DiasReview(nivel) ==
    CASE nivel = "Crítico" -> 7
      [] nivel = "Alto" -> 15
      [] nivel = "Medio" -> 30
      [] nivel = "Bajo" -> 90

NivelesEvaluados == {"Bajo", "Medio", "Alto", "Crítico"}

\* C21: in every non-empty verdict proximo_review is the instant of the
\* analysis plus 7 days for Crítico, 15 for Alto, 30 for Medio and 90 for
\* Bajo, and a higher level never gets a later review than a lower one.
C21_ProximoReview ==
    /\ Analizado =>
          /\ analisis.scoring.nivel_riesgo \in NivelesEvaluados
          /\ analisis.proximo_review
                = analisis.timestamp_analisis + DiasReview(analisis.scoring.nivel_riesgo)
    /\ \A n1, n2 \in NivelesEvaluados :
          RangoNivel(n1) > RangoNivel(n2)
              => _calcular_proximo_review(n1, reloj) <= _calcular_proximo_review(n2, reloj)

C21_Witness ==
    /\ Analizado
    /\ analisis.scoring.nivel_riesgo = "Alto"
    /\ analisis.timestamp_analisis = 1
    /\ analisis.proximo_review = 16

\* C22: every result of clasificar_perfil_gafi is accepted by
\* validar_perfil_gafi and every result of evaluar_banderas_riesgo by
\* validar_banderas_riesgo, the empty transaction set included.
C22_ContratoGafi ==
    /\ pc = "perfil_clasificado" => validar_perfil_gafi(clasificacion)
    /\ pc = "evaluado" => validar_banderas_riesgo(evaluacion)

\* the total volume of the rows of client c in the table
VolumenDe(c) ==
    SumaMonto(df_completo, {r \in Filas(df_completo) : r.cliente = c})

\* C23: obtener_resumen_caracterizacion returns a summary without raising
\* for every result of caracterizar_cliente_gafi, and
\* caracterizar_cartera_clientes reports for each client the total volume of
\* its transactions.
C23_ConsumidoresMetricas ==
    /\ pc = "resumido" => resumen.excepcion = ""
    /\ pc = "cartera_caracterizada" =>
          \A i \in 1..Len(reporte_cartera.caracterizaciones) :
              reporte_cartera.caracterizaciones[i].volumen_total
                  = VolumenDe(reporte_cartera.caracterizaciones[i].cliente)

\* the points of the highest tier a value reaches; a tier is <<threshold,
\* points>> and a value a quotient
PuntosTramo(q, tramos, estricto) ==
    MaxOf({0} \cup {t[2] : t \in {u \in tramos :
                                    IF estricto THEN q[1] > u[1] * q[2]
                                    ELSE q[1] >= u[1] * q[2]}})

ScorePerfilador(mc) ==
    PuntosTramo(<<mc.monto_total, 1>>, {<<500, 25>>, <<100, 15>>, <<10, 5>>}, TRUE)
    + PuntosTramo(mc.frecuencia_diaria, {<<20, 20>>, <<10, 12>>, <<5, 5>>}, TRUE)
    + PuntosTramo(mc.monto_promedio, {<<20, 20>>, <<5, 12>>, <<1, 5>>}, TRUE)
    + PuntosTramo(<<mc.diversidad_tipos, 1>>, {<<4, 15>>, <<3, 10>>, <<2, 5>>}, FALSE)
    + PuntosTramo(mc.tasa_rechazo, {<<15, 20>>, <<10, 12>>, <<5, 5>>}, TRUE)

Caracterizado == pc = "caracterizado" /\ ~empty(df)

\* C24: the score of caracterizar_cliente_gafi is the sum, capped at 100, of
\* the points of the highest tier reached by each of total volume, daily
\* frequency, average ticket, type diversity and rejection rate of its
\* consolidated metrics, and the level is Alto from 70, Medio from 40 and
\* Bajo below.
C24_ScorePerfilador ==
    Caracterizado =>
        /\ caracterizacion.score_riesgo
              = Min2(ScorePerfilador(caracterizacion.metricas_consolidadas), 100)
        /\ caracterizacion.nivel_riesgo_inicial
              = (IF caracterizacion.score_riesgo >= 70 THEN "Alto"
                 ELSE IF caracterizacion.score_riesgo >= 40 THEN "Medio"
                 ELSE "Bajo")

C24_Witness ==
    /\ Caracterizado
    /\ caracterizacion.metricas_consolidadas.diversidad_tipos = 4
    /\ caracterizacion.metricas_consolidadas.monto_total > 500
    /\ Mayor(caracterizacion.metricas_consolidadas.tasa_rechazo, 15)
    /\ caracterizacion.score_riesgo >= 70
    /\ caracterizacion.nivel_riesgo_inicial = "Alto"

\* the dated rows of df, the size of the first half, and the number of
\* copies of a row that the time order puts in the first half
NFechadas == Cuenta(df, ConFecha(df))
Mitad == NFechadas \div 2
EnPrimera(r) ==
    LET antes == Cuenta(df, {q \in ConFecha(df) : q.fecha < r.fecha})
    IN Min2(df.rows[r], Max2(0, Mitad - antes))
VolPrimera == Sum([r \in ConFecha(df) |-> EnPrimera(r) * r.monto], ConFecha(df))
VolSegunda == SumaMonto(df, ConFecha(df)) - VolPrimera

HayBandera(tipo, severidad, puntos) ==
    \E i \in 1..Len(evaluacion.banderas) :
        /\ evaluacion.banderas[i].tipo = tipo
        /\ evaluacion.banderas[i].severidad = severidad
        /\ evaluacion.banderas[i].puntos = puntos

HayCambio ==
    \E i \in 1..Len(evaluacion.banderas) :
        evaluacion.banderas[i].tipo
            \in {"Cambio Brusco en Volumen", "Cambio Brusco en Frecuencia"}

EvaluadoCambio == pc = "evaluado" /\ {FECHA, MONTO} \subseteq df.columns /\ ~empty(df)

\* C25: with fewer than 20 dated records there is no behavioural-shift
\* flag; with 20 or more, the records being split at the midpoint of the
\* time order, the volume flag (Alta, 20 points) is present exactly when the
\* volume of the second half differs from that of the first by 200% or more,
\* and the frequency flag (Media, 15 points) exactly when the count of the
\* second half differs from that of the first by 150% or more.
C25_CambioComportamiento ==
    EvaluadoCambio =>
        /\ NFechadas < 20 => ~HayCambio
        /\ NFechadas >= 20 =>
              /\ HayBandera("Cambio Brusco en Volumen", "Alta", 20)
                    <=> /\ VolSegunda # VolPrimera
                        /\ Abs(VolSegunda - VolPrimera) >= 2 * Abs(VolPrimera)
              /\ HayBandera("Cambio Brusco en Frecuencia", "Media", 15)
                    <=> 2 * Abs((NFechadas - Mitad) - Mitad) >= 3 * Mitad

\* C30: the halves of n >= 20 dated records have n div 2 and n - n div 2
\* records, which differ by at most 1, and the flag 'Cambio Brusco en
\* Frecuencia' is in no evaluation.
C30_SinCambioFrecuencia ==
    /\ pc = "evaluado" =>
          \A i \in 1..Len(evaluacion.banderas) :
              evaluacion.banderas[i].tipo # "Cambio Brusco en Frecuencia"
    /\ NFechadas >= 20 =>
          /\ (NFechadas - Mitad) - Mitad \in {0, 1}
          /\ 100 * ((NFechadas - Mitad) - Mitad) <= 10 * Mitad

C30_Witness ==
    /\ EvaluadoCambio
    /\ NFechadas = 29
    /\ Mitad = 14
    /\ HayBandera("Cambio Brusco en Volumen", "Alta", 20)

\* C26: nivel_alerta of detectar_patrones_anomalos is 'Normal' whenever the
\* total of amount, frequency and temporal anomalies is below 5 and another
\* level only from 5 anomalies on; with fewer than 4 transactions no
\* anomaly is reported and the level is 'Normal'.
C26_NivelAnomalias ==
    pc = "patrones" =>
        /\ patrones.nivel_alerta \in {"Normal", "Bajo", "Medio", "Alto"}
        /\ patrones.total_anomalias < 5 <=> patrones.nivel_alerta = "Normal"
        /\ len(df) < 4 =>
              patrones.total_anomalias = 0 /\ patrones.nivel_alerta = "Normal"

\* the dated transactions of df at an unusual hour, and all the dated ones
HorarioInusual ==
    Cuenta(df, {r \in ConFecha(df) : dt_hour(r.fecha) < 5 \/ dt_hour(r.fecha) >= 22})

HayHorarioInusual ==
    \E i \in 1..Len(patrones.anomalias_temporales) :
        patrones.anomalias_temporales[i].tipo = "Horario inusual"

\* C27: detectar_patrones_anomalos reports the unusual-hours anomaly only
\* when the transactions before 05:00 or from 22:00 on exceed 20% of the
\* dated transactions and there are at least 4 of them.
C27_HorarioInusual ==
    pc = "patrones" /\ HayHorarioInusual =>
        /\ 100 * HorarioInusual > 20 * NFechadas
        /\ NFechadas >= 4

HayScoreCritico == \E i \in 1..Len(analisis.alertas) : EsScoreCritico(analisis.alertas[i])

\* C28: in every non-empty verdict nivel_riesgo = 'Crítico',
\* apetito_riesgo_superado and the presence of the score-critical alert are
\* equivalent, and when they hold requiere_escalamiento and
\* requiere_due_diligence_reforzada are true, the due-diligence gap is
\* present and the score-critical alert is the first alert.
C28_Critico ==
    Analizado =>
        /\ analisis.scoring.nivel_riesgo = "Crítico"
              <=> analisis.matriz_riesgo.apetito_riesgo_superado
        /\ analisis.matriz_riesgo.apetito_riesgo_superado <=> HayScoreCritico
        /\ analisis.scoring.nivel_riesgo = "Crítico" =>
              /\ analisis.requiere_escalamiento
              /\ analisis.requiere_due_diligence_reforzada
              /\ \E i \in 1..Len(analisis.matriz_riesgo.gaps_control) :
                    analisis.matriz_riesgo.gaps_control[i] = GapDDR
              /\ EsScoreCritico(analisis.alertas[1])

C28_Witness ==
    /\ Analizado
    /\ analisis.scoring.nivel_riesgo = "Crítico"
    /\ analisis.matriz_riesgo.apetito_riesgo_superado
    /\ EsScoreCritico(analisis.alertas[1])
    /\ Len(analisis.alertas) >= 2
    /\ analisis.alertas[2].prioridad = "Crítica"
    /\ analisis.requiere_escalamiento
    /\ analisis.requiere_due_diligence_reforzada

\* C29: in every non-empty verdict score_uiaf is at most 65, the factor
\* 'Señales UIAF detectadas' is not among factores_criticos, and with a
\* GAFI component in 0..100 score_total is at most 84.
C29_TopeUiaf ==
    Analizado =>
        /\ analisis.scoring.score_uiaf <= 65
        /\ ~(analisis.scoring.score_uiaf > 70)
        /\ \A i \in 1..Len(analisis.scoring.factores_criticos) :
              analisis.scoring.factores_criticos[i] # "Señales UIAF detectadas"
        /\ analisis.scoring.score_gafi \in 0..100 =>
              analisis.scoring.score_total <= 84

C29_Witness ==
    /\ Analizado
    /\ analisis.scoring.score_uiaf = 65
    /\ analisis.scoring.score_gafi = 100
    /\ analisis.scoring.score_total > 80

====
